---------------------------- MODULE Spec2Model ----------------------------
(***************************************************************************)
(* Commit classification and summarisation pipeline of Readme_Generator.   *)
(*                                                                         *)
(* A Python str is modelled as a sequence of characters; a character is a  *)
(* one-code-point TLA+ string.  Optional[T] is a sequence of length 0      *)
(* (None) or 1 (a value).  The category names are the ones the code        *)
(* returns: "feat" is the category the prose calls feature, "perf" the one *)
(* it calls performance.                                                   *)
(***************************************************************************)
EXTENDS Integers, Sequences, FiniteSets, TLC

VARIABLES
    message,      \* parser.py: the argument of CommitParser.parse
    parsed,       \* parser.py: the tuple CommitParser.parse returned (Optional)
    commits,      \* the commit list handed to categorize / summarize
    groups,       \* parser.py: the dict CommitCategorizer.categorize returned
    sgroups,      \* readme_generator.py: the groups dict built in summarize
    nltk,         \* readme_generator.py:37-43: whether the nltk import succeeded
    candidates,   \* readme_generator.py: the argument of _rank_candidates
    ranked,       \* readme_generator.py: the list _rank_candidates returned
    reranked,     \* readme_generator.py: _rank_candidates applied to its own output
    topN,         \* readme_generator.py: top_n_per_type of summarize
    bullets,      \* readme_generator.py: the dict summarize returned (bullet lists)
    commitType,   \* summarizer.py: commit_type of _create_detailed_summary
    descriptions, \* summarizer.py: descriptions of _create_detailed_summary
    allText,      \* summarizer.py: all_text of _create_detailed_summary
    themes,       \* summarizer.py: the dict _extract_themes returned
    keyTerms,     \* summarizer.py: the list _extract_key_terms returned
    detailed,     \* summarizer.py: the text _create_detailed_summary returned
    narrative,    \* summarizer.py: the dict summarize returned (narrative texts)
    nltkData,     \* whether the nltk data (punkt, stopwords) can be loaded
    mainPc,       \* main.py: the statement main() is at
    exitCode,     \* main.py: the status the run ended with (Optional)
    raisedAt,     \* main.py: the step whose exception ended the run (Optional)
    invoked,      \* main.py: the steps main() has called so far
    written,      \* main.py: whether the output file was opened for writing
    source,       \* fetcher.py: the records repo.get_commits() yields (Optional)
    maxCommits,   \* fetcher.py: max_commits of fetch_commits
    fetched,      \* fetcher.py: how fetch_commits ended (Optional)
    calls,        \* parser.py: the calls of CommitParser.parse made so far
    activity,     \* generator.py: how _format_recent_activity ended (Optional)
    markdown,     \* readme_generator.py: how generate_markdown ended (Optional)
    commitTypes,  \* parser.py: the list get_commit_types returned (Optional)
    byType,       \* parser.py: the lists get_commits_by_type returned (Optional)
    messages,     \* src/summarizer.py: the argument of categorize_commits
    buckets       \* src/summarizer.py: the dict categorize_commits returned (Optional)

vars == <<message, parsed, commits, groups, sgroups, nltk, candidates, ranked,
          reranked, topN, bullets, commitType, descriptions, allText, themes, keyTerms, detailed,
          narrative, nltkData, mainPc, exitCode, raisedAt, invoked, written,
          source, maxCommits, fetched, calls, activity, markdown, commitTypes, byType,
          messages, buckets>>

-----------------------------------------------------------------------------
(* Bounds of the model *)

\* Longest free-form message, counted in fragments.
MaxFrags == 3
\* Longest commit list.
MaxCommits == 3
\* Longest candidate list.
MaxCands == 3
\* Longest list of descriptions given to the narrative summarizer.
MaxDescs == 2
\* Longest input of the operations that are applied side by side.
MaxInputs == 1

-----------------------------------------------------------------------------
(* Python values *)

None == << >>
Some(x) == << x >>
IsNone(o) == o = << >>

\* U+017F LATIN SMALL LETTER LONG S: a cased letter outside ASCII.
LongS == "U+017F"

UpperChars == <<"A","B","C","D","E","F","G","H","I","J","K","L","M",
                "N","O","P","Q","R","S","T","U","V","W","X","Y","Z">>
LowerChars == <<"a","b","c","d","e","f","g","h","i","j","k","l","m",
                "n","o","p","q","r","s","t","u","v","w","x","y","z">>
DigitChars == {"0","1","2","3","4","5","6","7","8","9"}

Range(s) == {s[i] : i \in 1..Len(s)}

\* str.lower() on one character.  U+017F is already lower case.
LowerChar(c) ==
    IF \E i \in 1..26 : UpperChars[i] = c
    THEN LowerChars[CHOOSE i \in 1..26 : UpperChars[i] = c]
    ELSE c

\* str.lower()
Lower(s) == [i \in 1..Len(s) |-> LowerChar(s[i])]

\* str.isspace() on the characters of the model; also the regex class \s.
IsSpace(c) == c \in {" ", "\t", "\n", "\r"}

\* The regex class \w (Unicode): letters, digits, underscore.
IsWordChar(c) ==
    \/ c \in Range(UpperChars) \cup Range(LowerChars) \cup DigitChars
    \/ c = "_"
    \/ c = LongS

\* The line boundaries str.splitlines() splits on, among the model's characters.
IsLineBreak(c) == c \in {"\n", "\r"}

RECURSIVE LStrip(_)
LStrip(s) ==
    IF s # << >> /\ IsSpace(Head(s)) THEN LStrip(Tail(s)) ELSE s

RECURSIVE RStrip(_)
RStrip(s) ==
    IF s # << >> /\ IsSpace(s[Len(s)]) THEN RStrip(SubSeq(s, 1, Len(s) - 1)) ELSE s

\* str.strip()
Strip(s) == RStrip(LStrip(s))

\* str.splitlines(): "\r\n" is one boundary, and a final boundary opens no line.
RECURSIVE SplitLinesFrom(_, _, _, _)
SplitLinesFrom(s, i, cur, acc) ==
    IF i > Len(s)
    THEN IF cur # << >> THEN Append(acc, cur) ELSE acc
    ELSE IF s[i] = "\r" /\ i < Len(s) /\ s[i + 1] = "\n"
         THEN SplitLinesFrom(s, i + 2, << >>, Append(acc, cur))
         ELSE IF IsLineBreak(s[i])
              THEN SplitLinesFrom(s, i + 1, << >>, Append(acc, cur))
              ELSE SplitLinesFrom(s, i + 1, Append(cur, s[i]), acc)

SplitLines(s) == SplitLinesFrom(s, 1, << >>, << >>)

\* str.split() with no argument: runs of whitespace separate, no empty word.
RECURSIVE SplitFrom(_, _, _, _)
SplitFrom(s, i, cur, acc) ==
    IF i > Len(s)
    THEN IF cur # << >> THEN Append(acc, cur) ELSE acc
    ELSE IF IsSpace(s[i])
         THEN SplitFrom(s, i + 1, << >>, IF cur # << >> THEN Append(acc, cur) ELSE acc)
         ELSE SplitFrom(s, i + 1, Append(cur, s[i]), acc)

Split(s) == SplitFrom(s, 1, << >>, << >>)

\* sep.join(parts)
RECURSIVE Join(_, _)
Join(sep, parts) ==
    IF parts = << >> THEN << >>
    ELSE IF Len(parts) = 1 THEN parts[1]
    ELSE parts[1] \o sep \o Join(sep, Tail(parts))

\* s.startswith(t)
StartsWith(s, t) == Len(t) <= Len(s) /\ SubSeq(s, 1, Len(t)) = t

\* t in s, for strings
Contains(s, t) ==
    \E i \in 1..(Len(s) - Len(t) + 1) : SubSeq(s, i, i + Len(t) - 1) = t

-----------------------------------------------------------------------------
(* CommitParser *)

kFeat == <<"f","e","a","t">>
kFix == <<"f","i","x">>
kDocs == <<"d","o","c","s">>
kStyle == <<"s","t","y","l","e">>
kRefactor == <<"r","e","f","a","c","t","o","r">>
kPerf == <<"p","e","r","f">>
kTest == <<"t","e","s","t">>
kChore == <<"c","h","o","r","e">>

\* The alternatives of the type group of CONVENTIONAL_RE, in pattern order.
TypeAlternatives == <<kFeat, kFix, kDocs, kStyle, kRefactor, kPerf, kTest, kChore>>

\* The tuple the fallback loop iterates over.
FallbackOrder == <<kFeat, kFix, kDocs, kRefactor, kPerf, kTest, kStyle>>

\* One pattern character against one subject character under re.I: equal after
\* case folding; U+017F folds to "s".
IgnoreCaseEq(c, p) == LowerChar(c) = p \/ (c = LongS /\ p = "s")

\* A literal of the pattern at position pos of s, under re.I.
MatchLiteralI(s, pos, lit) ==
    /\ pos + Len(lit) - 1 <= Len(s)
    /\ \A i \in 1..Len(lit) : IgnoreCaseEq(s[pos + i - 1], lit[i])

\* (!)?:\s*(?P<desc>.+) from position p: the optional "!" is tried first, then
\* skipped; \s* is greedy and gives back one character when .+ would be empty.
\* The result is Some(desc) or None.
MatchTail(s, p) ==
    LET from(q) ==
            IF q <= Len(s) /\ s[q] = ":" /\ q + 1 <= Len(s)
            THEN LET r == SubSeq(s, q + 1, Len(s))
                     rest == LStrip(r)
                 IN  Some(IF rest = << >> THEN <<r[Len(r)]>> ELSE rest)
            ELSE None
        withBang == IF p <= Len(s) /\ s[p] = "!" THEN from(p + 1) ELSE None
    IN  IF ~IsNone(withBang) THEN withBang ELSE from(p)

\* CONVENTIONAL_RE.match(first): None, or Some of the groups type, scope, desc.
ConventionalMatch(first) ==
    LET alts == {k \in 1..Len(TypeAlternatives) : MatchLiteralI(first, 1, TypeAlternatives[k])}
    IN  IF alts = {} THEN None
        ELSE
        LET k == CHOOSE a \in alts : \A b \in alts : a <= b
            p == Len(TypeAlternatives[k]) + 1
            type == SubSeq(first, 1, p - 1)
            closes == {j \in (p + 1)..Len(first) : first[j] = ")"}
            close == CHOOSE j \in closes : \A j2 \in closes : j <= j2
            hasScope == /\ p <= Len(first) /\ first[p] = "("
                        /\ closes # {} /\ close > p + 1
            scoped == IF hasScope THEN MatchTail(first, close + 1) ELSE None
            plain == MatchTail(first, p)
        IN  IF ~IsNone(scoped)
            THEN Some([type |-> type, scope |-> Some(SubSeq(first, p + 1, close - 1)),
                       desc |-> scoped[1]])
            ELSE IF ~IsNone(plain)
                 THEN Some([type |-> type, scope |-> None, desc |-> plain[1]])
                 ELSE None

\* The keyword test of the fallback loop.
KeywordFound(lowered, t) ==
    \/ StartsWith(lowered, t)
    \/ Contains(lowered, Append(t, ":"))
    \/ t \in Range(Split(lowered))

\* Mutant of GuessType: "fix" is scanned before "feat".
GuessTypeFixFirst(lowered) ==
    LET order == <<kFix, kFeat, kDocs, kRefactor, kPerf, kTest, kStyle>>
        found == {k \in 1..Len(order) : KeywordFound(lowered, order[k])}
    IN  IF found = {} THEN kChore
        ELSE order[CHOOSE k \in found : \A k2 \in found : k <= k2]

\* Mutant of GuessType: the loop variable is returned, so no keyword found
\* leaves the last keyword scanned instead of chore.
GuessTypeLoopVariable(lowered) ==
    LET found == {k \in 1..Len(FallbackOrder) : KeywordFound(lowered, FallbackOrder[k])}
    IN  IF found = {} THEN FallbackOrder[Len(FallbackOrder)]
        ELSE FallbackOrder[CHOOSE k \in found : \A k2 \in found : k <= k2]

\* A fallback with a memory: the category of the previous call of parse, when
\* there was one.
GuessTypeRemembered(lowered) ==
    IF calls # << >> THEN calls[Len(calls)].result.ctype ELSE kChore

\* The fallback loop: the first keyword of FallbackOrder that is found, else chore.
GuessType(lowered) ==
    LET found == {k \in 1..Len(FallbackOrder) : KeywordFound(lowered, FallbackOrder[k])}
    IN  IF found = {} THEN kChore
        ELSE FallbackOrder[CHOOSE k \in found : \A k2 \in found : k <= k2]

\* Mutant of BodyOf: the joined lines are not stripped.
BodyOfUnstripped(lines) ==
    IF Len(lines) > 1 THEN Some(Join(<<"\n">>, Tail(lines))) ELSE None

\* body = "\n".join(lines[1:]).strip() if len(lines) > 1 else None
BodyOf(lines) ==
    IF Len(lines) > 1 THEN Some(Strip(Join(<<"\n">>, Tail(lines)))) ELSE None

\* CommitParser.parse(message)
parse(msg) ==
    LET lines == SplitLines(msg)
        first == IF lines # << >> THEN lines[1] ELSE << >>
        m == ConventionalMatch(first)
    IN  IF ~IsNone(m)
        THEN [ctype |-> Lower(m[1].type), scope |-> m[1].scope,
              desc |-> Strip(m[1].desc), body |-> BodyOf(lines)]
        ELSE [ctype |-> GuessType(Lower(first)), scope |-> None,
              desc |-> Strip(first), body |-> BodyOf(lines)]

-----------------------------------------------------------------------------
(* CommitCategorizer.categorize and the grouping loop of CommitSummarizer.summarize *)

\* A dict is the sequence of its entries in insertion order; each entry of a groups
\* dict is a key and the list of commits appended under it.
DictKeys(d) == {d[i].key : i \in 1..Len(d)}
DictIndex(d, k) == CHOOSE i \in 1..Len(d) : d[i].key = k

\* Mutant of GroupAppend: the list under the key is assigned, not appended to.
GroupAssign(d, k, c) ==
    IF k \in DictKeys(d)
    THEN [d EXCEPT ![DictIndex(d, k)].items = <<c>>]
    ELSE Append(d, [key |-> k, items |-> <<c>>])

\* Mutant of GroupAppend: the commit is inserted at the front of the list.
GroupPrepend(d, k, c) ==
    IF k \in DictKeys(d)
    THEN [d EXCEPT ![DictIndex(d, k)].items = <<c>> \o @]
    ELSE Append(d, [key |-> k, items |-> <<c>>])

\* groups[commit_type].append(commit) on a defaultdict(list)
GroupAppend(d, k, c) ==
    IF k \in DictKeys(d)
    THEN [d EXCEPT ![DictIndex(d, k)].items = Append(@, c)]
    ELSE Append(d, [key |-> k, items |-> <<c>>])

\* The loop of CommitCategorizer.categorize from commit i on.
RECURSIVE CategorizeFrom(_, _, _)
CategorizeFrom(cs, i, d) ==
    IF i > Len(cs) THEN d
    ELSE CategorizeFrom(cs, i + 1, GroupAppend(d, parse(cs[i].message).ctype, cs[i]))

\* CommitCategorizer.categorize(commits)
categorize(cs) == CategorizeFrom(cs, 1, << >>)

\* The grouping loop at the head of CommitSummarizer.summarize from commit i on.
RECURSIVE SummarizeGroupsFrom(_, _, _)
SummarizeGroupsFrom(cs, i, d) ==
    IF i > Len(cs) THEN d
    ELSE SummarizeGroupsFrom(cs, i + 1, GroupAppend(d, parse(cs[i].message).ctype, cs[i]))

\* The groups dict CommitSummarizer.summarize builds before it summarizes.
summarizeGroups(cs) == SummarizeGroupsFrom(cs, 1, << >>)

-----------------------------------------------------------------------------
(* CommitSummarizer._rank_candidates of readme_generator.py *)

\* stopwords.words("english"), as far as the words of the model go.
EnglishStopWords == { <<"t","h","e">>, <<"a">>, <<"a","n","d">>, <<"o","f">>, <<"t","o">> }

\* stop_words: the nltk list when nltk was imported, else the empty set.
StopWords(withNltk) == IF withNltk THEN EnglishStopWords ELSE {}

\* nltk's word_tokenize on the characters of the model: whitespace separates, and
\* a punctuation character is a token of its own.
RECURSIVE WordTokenizeFrom(_, _, _, _)
WordTokenizeFrom(s, i, cur, acc) ==
    LET flushed == IF cur # << >> THEN Append(acc, cur) ELSE acc
    IN  IF i > Len(s) THEN flushed
        ELSE IF IsSpace(s[i]) THEN WordTokenizeFrom(s, i + 1, << >>, flushed)
        ELSE IF IsWordChar(s[i]) THEN WordTokenizeFrom(s, i + 1, Append(cur, s[i]), acc)
        ELSE WordTokenizeFrom(s, i + 1, << >>, Append(flushed, <<s[i]>>))

WordTokenize(s) == WordTokenizeFrom(s, 1, << >>, << >>)

\* re.sub(r"\W+", "", w)
StripNonWord(w) == SelectSeq(w, IsWordChar)

\* words: lower-cased tokens of cand (word_tokenize with nltk, split without),
\* stripped of non-word characters, the empty ones dropped.
CandidateWords(withNltk, cand) ==
    LET tokens == WordTokenize(cand)
        raw == IF withNltk THEN [i \in 1..Len(tokens) |-> Lower(tokens[i])]
               ELSE Split(Lower(cand))
        stripped == [i \in 1..Len(raw) |-> StripNonWord(raw[i])]
    IN  SelectSeq(stripped, LAMBDA w : w # << >>)

\* filtered: the words that are no stop words.
FilteredTokens(withNltk, cand) ==
    SelectSeq(CandidateWords(withNltk, cand), LAMBDA w : w \notin StopWords(withNltk))

\* tokenized_candidates
TokenizedCandidates(withNltk, cands) ==
    [i \in 1..Len(cands) |-> FilteredTokens(withNltk, cands[i])]

RECURSIVE Flatten(_)
Flatten(ss) == IF ss = << >> THEN << >> ELSE Head(ss) \o Flatten(Tail(ss))

\* word_freq.get(t, 0), where counted holds the tokens of every
\* word_freq.update(filtered) in turn.
WordFreq(counted, t) == Cardinality({i \in 1..Len(counted) : counted[i] = t})

RECURSIVE SumSeq(_)
SumSeq(ns) == IF ns = << >> THEN 0 ELSE Head(ns) + SumSeq(Tail(ns))

\* Mutant of CandScore: the score is the number of tokens.
CandScoreTokenCount(tokenized, i) == Len(tokenized[i])

\* score = sum(word_freq.get(t, 0) for t in tokens)
CandScore(tokenized, i) ==
    LET counted == Flatten(tokenized)
    IN  SumSeq([j \in 1..Len(tokenized[i]) |-> WordFreq(counted, tokenized[i][j])])

\* cand_scores
CandScores(withNltk, cands) ==
    LET tokenized == TokenizedCandidates(withNltk, cands)
    IN  [i \in 1..Len(cands) |-> [cand |-> cands[i], score |-> CandScore(tokenized, i)]]

\* Mutant of InsertByScoreDesc: an entry goes before the entries of equal score.
InsertBeforeEqual(sorted, e) ==
    LET before == {i \in 1..Len(sorted) : sorted[i].score > e.score}
        k == Cardinality(before)
    IN  SubSeq(sorted, 1, k) \o <<e>> \o SubSeq(sorted, k + 1, Len(sorted))

\* Mutant of InsertByScoreDesc: ascending order (reverse=True left out).
InsertByScoreAsc(sorted, e) ==
    LET before == {i \in 1..Len(sorted) : sorted[i].score <= e.score}
        k == Cardinality(before)
    IN  SubSeq(sorted, 1, k) \o <<e>> \o SubSeq(sorted, k + 1, Len(sorted))

\* One step of the stable descending sort: e, which comes later in the list than
\* all of sorted, goes after every entry whose score is not lower.
InsertByScoreDesc(sorted, e) ==
    LET before == {i \in 1..Len(sorted) : sorted[i].score >= e.score}
        k == Cardinality(before)
    IN  SubSeq(sorted, 1, k) \o <<e>> \o SubSeq(sorted, k + 1, Len(sorted))

\* cand_scores.sort(key=lambda x: x[1], reverse=True): stable, descending
RECURSIVE SortByScoreDescFrom(_, _, _)
SortByScoreDescFrom(es, i, sorted) ==
    IF i > Len(es) THEN sorted
    ELSE SortByScoreDescFrom(es, i + 1, InsertByScoreDesc(sorted, es[i]))

SortByScoreDesc(es) == SortByScoreDescFrom(es, 1, << >>)

\* Mutant of DedupKey: the text itself, case included.
DedupKeyExact(cand) == cand

\* key = cand.lower()
DedupKey(cand) == Lower(cand)

\* The de-duplication loop from entry i on.
RECURSIVE DedupFrom(_, _, _, _)
DedupFrom(es, i, seen, ordered) ==
    IF i > Len(es) THEN ordered
    ELSE IF DedupKey(es[i].cand) \notin seen
         THEN DedupFrom(es, i + 1, seen \cup {DedupKey(es[i].cand)}, Append(ordered, es[i].cand))
         ELSE DedupFrom(es, i + 1, seen, ordered)

\* CommitSummarizer._rank_candidates(candidates)
rankCandidates(withNltk, cands) ==
    IF cands = << >> THEN << >>
    ELSE DedupFrom(SortByScoreDesc(CandScores(withNltk, cands)), 1, {}, << >>)


-----------------------------------------------------------------------------
(* CommitSummarizer.summarize of readme_generator.py: bullet lists *)

\* top_n_per_type: int = 5
DefaultTopN == 5

\* lst[:n] for n >= 0
Take(lst, n) == SubSeq(lst, 1, IF n < Len(lst) THEN n ELSE Len(lst))

\* body.split("\n")[0]
FirstLine(s) ==
    IF \E i \in 1..Len(s) : s[i] = "\n"
    THEN SubSeq(s, 1, (CHOOSE i \in 1..Len(s) :
                           s[i] = "\n" /\ \A j \in 1..(i - 1) : s[j] # "\n") - 1)
    ELSE s

\* Where the first sentence of s ends for nltk's sent_tokenize, reduced to its
\* rule on plain text: a sentence ends with '.', '!' or '?' followed by
\* whitespace, and otherwise at the end of the text.
SentenceEnds(s) ==
    {i \in 1..(Len(s) - 1) : s[i] \in {".", "!", "?"} /\ IsSpace(s[i + 1])}

\* sent_tokenize(body)[0], for a body without surrounding whitespace
FirstSentenceOf(s) ==
    IF SentenceEnds(s) # {}
    THEN SubSeq(s, 1, CHOOSE i \in SentenceEnds(s) : \A j \in SentenceEnds(s) : i <= j)
    ELSE s

\* sents = sent_tokenize(body) if nltk else [body.split("\n")[0]];  sents[0]
FirstSentence(withNltk, body) ==
    IF withNltk THEN FirstSentenceOf(body) ELSE FirstLine(body)

\* The candidates one commit adds: its description when it is not empty, then
\* the first sentence of its body when it has a body that is not empty.
CommitCandidates(withNltk, c) ==
    LET p == parse(c.message)
    IN  (IF p.desc # << >> THEN <<p.desc>> ELSE << >>)
        \o (IF ~IsNone(p.body) /\ p.body[1] # << >>
            THEN <<FirstSentence(withNltk, p.body[1])>> ELSE << >>)

\* The candidate loop of summarize over the commits of one group.
RECURSIVE GatherCandidates(_, _)
GatherCandidates(withNltk, items) ==
    IF items = << >> THEN << >>
    ELSE CommitCandidates(withNltk, Head(items)) \o GatherCandidates(withNltk, Tail(items))

\* summaries[ctype] = ranked[:top_n_per_type]
SummaryOfGroup(withNltk, items, n) ==
    Take(rankCandidates(withNltk, GatherCandidates(withNltk, items)), n)

\* CommitSummarizer.summarize(commits, top_n_per_type) of readme_generator.py
summarizeBullets(withNltk, cs, n) ==
    LET gs == summarizeGroups(cs)
    IN  [i \in 1..Len(gs) |->
            [key |-> gs[i].key, items |-> SummaryOfGroup(withNltk, gs[i].items, n)]]


-----------------------------------------------------------------------------
(* CommitSummarizer of readme_generator/summarizer.py: narrative summaries *)

\* The themes of _extract_themes in the order of its tests, each with the
\* terms of its test.
ThemeTable ==
    << [key |-> "authentication",
        terms |-> <<<<"a","u","t","h">>, <<"l","o","g","i","n">>,
                    <<"s","i","g","n","u","p">>, <<"u","s","e","r">>,
                    <<"s","e","c","u","r","i","t","y">>, <<"t","o","k","e","n">>,
                    <<"o","a","u","t","h">>, <<"p","e","r","m","i","s","s","i","o","n">>>>],
       [key |-> "api",
        terms |-> <<<<"a","p","i">>, <<"e","n","d","p","o","i","n","t">>,
                    <<"r","e","q","u","e","s","t">>, <<"r","e","s","p","o","n","s","e">>,
                    <<"s","e","r","v","e","r">>, <<"b","a","c","k","e","n","d">>,
                    <<"s","e","r","v","i","c","e">>, <<"r","o","u","t","e">>>>],
       [key |-> "ui",
        terms |-> <<<<"u","i">>, <<"i","n","t","e","r","f","a","c","e">>,
                    <<"c","o","m","p","o","n","e","n","t">>, <<"v","i","e","w">>,
                    <<"f","r","o","n","t","e","n","d">>, <<"r","e","a","c","t">>,
                    <<"v","u","e">>, <<"a","n","g","u","l","a","r">>, <<"c","s","s">>,
                    <<"h","t","m","l">>>>],
       [key |-> "performance",
        terms |-> <<<<"c","a","c","h","e">>,
                    <<"p","e","r","f","o","r","m","a","n","c","e">>,
                    <<"o","p","t","i","m","i","z","a","t","i","o","n">>,
                    <<"s","p","e","e","d">>, <<"m","e","m","o","r","y">>,
                    <<"e","f","f","i","c","i","e","n","t">>, <<"f","a","s","t">>>>],
       [key |-> "data",
        terms |-> <<<<"d","a","t","a","b","a","s","e">>, <<"d","b">>, <<"s","q","l">>,
                    <<"q","u","e","r","y">>, <<"d","a","t","a">>,
                    <<"m","o","d","e","l">>, <<"s","c","h","e","m","a">>,
                    <<"m","i","g","r","a","t","i","o","n">>>>] >>

\* The themes of _summarize_features in the order of its tests: gate holds the
\* terms looked for in the joined text, terms those a counted description contains.
FeatureThemes ==
    << [name |-> "Authentication & Security",
        gate |-> <<<<"a","u","t","h">>, <<"l","o","g","i","n">>,
                   <<"s","i","g","n","u","p">>, <<"u","s","e","r">>,
                   <<"s","e","c","u","r","i","t","y">>, <<"t","o","k","e","n">>,
                   <<"o","a","u","t","h">>, <<"p","e","r","m","i","s","s","i","o","n">>>>,
        terms |-> <<<<"a","u","t","h">>, <<"l","o","g","i","n">>,
                    <<"s","i","g","n","u","p">>, <<"u","s","e","r">>,
                    <<"s","e","c","u","r","i","t","y">>, <<"t","o","k","e","n">>>>],
       [name |-> "API & Backend Services",
        gate |-> <<<<"a","p","i">>, <<"e","n","d","p","o","i","n","t">>,
                   <<"r","e","q","u","e","s","t">>, <<"r","e","s","p","o","n","s","e">>,
                   <<"s","e","r","v","e","r">>, <<"b","a","c","k","e","n","d">>,
                   <<"s","e","r","v","i","c","e">>, <<"r","o","u","t","e">>>>,
        terms |-> <<<<"a","p","i">>, <<"e","n","d","p","o","i","n","t">>,
                    <<"r","e","q","u","e","s","t">>, <<"r","e","s","p","o","n","s","e">>,
                    <<"s","e","r","v","e","r">>>>],
       [name |-> "User Interface & Experience",
        gate |-> <<<<"u","i">>, <<"i","n","t","e","r","f","a","c","e">>,
                   <<"c","o","m","p","o","n","e","n","t">>, <<"v","i","e","w">>,
                   <<"f","r","o","n","t","e","n","d">>, <<"r","e","a","c","t">>,
                   <<"v","u","e">>, <<"a","n","g","u","l","a","r">>, <<"c","s","s">>,
                   <<"h","t","m","l">>>>,
        terms |-> <<<<"u","i">>, <<"i","n","t","e","r","f","a","c","e">>,
                    <<"c","o","m","p","o","n","e","n","t">>, <<"v","i","e","w">>,
                    <<"f","r","o","n","t","e","n","d">>>>],
       [name |-> "Performance & Optimization",
        gate |-> <<<<"c","a","c","h","e">>,
                   <<"p","e","r","f","o","r","m","a","n","c","e">>,
                   <<"o","p","t","i","m","i","z","a","t","i","o","n">>,
                   <<"s","p","e","e","d">>, <<"m","e","m","o","r","y">>,
                   <<"e","f","f","i","c","i","e","n","t">>, <<"f","a","s","t">>>>,
        terms |-> <<<<"c","a","c","h","e">>,
                    <<"p","e","r","f","o","r","m","a","n","c","e">>,
                    <<"o","p","t","i","m","i","z","a","t","i","o","n">>,
                    <<"s","p","e","e","d">>>>],
       [name |-> "Data Management",
        gate |-> <<<<"d","a","t","a","b","a","s","e">>, <<"d","b">>, <<"s","q","l">>,
                   <<"q","u","e","r","y">>, <<"d","a","t","a">>, <<"m","o","d","e","l">>,
                   <<"s","c","h","e","m","a">>, <<"m","i","g","r","a","t","i","o","n">>>>,
        terms |-> <<<<"d","a","t","a","b","a","s","e">>, <<"d","b">>, <<"s","q","l">>,
                    <<"q","u","e","r","y">>, <<"d","a","t","a">>,
                    <<"m","o","d","e","l">>>>],
       [name |-> "Platform Integration",
        gate |-> <<<<"s","u","p","p","o","r","t">>,
                   <<"c","o","m","p","a","t","i","b","i","l","i","t","y">>,
                   <<"i","n","t","e","g","r","a","t","i","o","n">>,
                   <<"p","l","u","g","i","n">>, <<"e","x","t","e","n","s","i","o","n">>,
                   <<"p","l","a","t","f","o","r","m">>>>,
        terms |-> <<<<"s","u","p","p","o","r","t">>,
                    <<"c","o","m","p","a","t","i","b","i","l","i","t","y">>,
                    <<"i","n","t","e","g","r","a","t","i","o","n">>,
                    <<"p","l","u","g","i","n">>>>],
       [name |-> "Testing & Quality Assurance",
        gate |-> <<<<"t","e","s","t">>, <<"t","e","s","t","i","n","g">>,
                   <<"c","o","v","e","r","a","g","e">>, <<"q","u","a","l","i","t","y">>,
                   <<"v","a","l","i","d","a","t","i","o","n">>, <<"c","h","e","c","k">>>>,
        terms |-> <<<<"t","e","s","t">>, <<"t","e","s","t","i","n","g">>,
                    <<"c","o","v","e","r","a","g","e">>,
                    <<"q","u","a","l","i","t","y">>>>] >>

\* The categories of _summarize_fixes in the order of its tests.
FixCategories ==
    << [name |-> "Critical Stability",
        terms |-> <<<<"c","r","a","s","h">>, <<"e","r","r","o","r">>,
                    <<"e","x","c","e","p","t","i","o","n">>, <<"f","a","i","l">>,
                    <<"c","r","i","t","i","c","a","l">>, <<"f","a","t","a","l">>,
                    <<"h","a","n","g">>>>],
       [name |-> "Memory & Performance",
        terms |-> <<<<"m","e","m","o","r","y">>, <<"l","e","a","k">>,
                    <<"p","e","r","f","o","r","m","a","n","c","e">>, <<"s","l","o","w">>,
                    <<"t","i","m","e","o","u","t">>,
                    <<"o","p","t","i","m","i","z","a","t","i","o","n">>>>],
       [name |-> "User Interface",
        terms |-> <<<<"u","i">>, <<"d","i","s","p","l","a","y">>,
                    <<"r","e","n","d","e","r">>, <<"v","i","s","u","a","l">>,
                    <<"l","a","y","o","u","t">>, <<"c","s","s">>,
                    <<"s","t","y","l","e">>, <<"a","p","p","e","a","r","a","n","c","e">>>>],
       [name |-> "Security",
        terms |-> <<<<"s","e","c","u","r","i","t","y">>,
                    <<"v","u","l","n","e","r","a","b","i","l","i","t","y">>,
                    <<"e","x","p","l","o","i","t">>, <<"x","s","s">>,
                    <<"c","s","r","f">>, <<"i","n","j","e","c","t","i","o","n">>,
                    <<"a","u","t","h">>>>],
       [name |-> "Data & Logic",
        terms |-> <<<<"d","a","t","a">>, <<"d","a","t","a","b","a","s","e">>,
                    <<"q","u","e","r","y">>, <<"l","o","g","i","c">>,
                    <<"c","a","l","c","u","l","a","t","i","o","n">>,
                    <<"v","a","l","i","d","a","t","i","o","n">>,
                    <<"p","a","r","s","i","n","g">>>>],
       [name |-> "API & Integration",
        terms |-> <<<<"a","p","i">>, <<"e","n","d","p","o","i","n","t">>,
                    <<"i","n","t","e","g","r","a","t","i","o","n">>,
                    <<"c","o","n","n","e","c","t","i","o","n">>,
                    <<"n","e","t","w","o","r","k">>, <<"r","e","q","u","e","s","t">>,
                    <<"r","e","s","p","o","n","s","e">>>>],
       [name |-> "Compatibility",
        terms |-> <<<<"c","o","m","p","a","t","i","b","i","l","i","t","y">>,
                    <<"p","l","a","t","f","o","r","m">>, <<"b","r","o","w","s","e","r">>,
                    <<"v","e","r","s","i","o","n">>, <<"s","u","p","p","o","r","t">>,
                    <<"d","e","p","r","e","c","a","t","e","d">>>>] >>

\* The categories of _summarize_docs in the order of its tests.
DocCategories ==
    << [name |-> "User Documentation",
        terms |-> <<<<"r","e","a","d","m","e">>, <<"g","u","i","d","e">>,
                    <<"t","u","t","o","r","i","a","l">>,
                    <<"g","e","t","t","i","n","g"," ","s","t","a","r","t","e","d">>,
                    <<"q","u","i","c","k","s","t","a","r","t">>,
                    <<"e","x","a","m","p","l","e">>>>],
       [name |-> "API Reference",
        terms |-> <<<<"a","p","i">>, <<"r","e","f","e","r","e","n","c","e">>,
                    <<"d","o","c","s","t","r","i","n","g">>,
                    <<"e","n","d","p","o","i","n","t">>,
                    <<"p","a","r","a","m","e","t","e","r">>, <<"m","e","t","h","o","d">>>>],
       [name |-> "Code Documentation",
        terms |-> <<<<"c","o","m","m","e","n","t">>,
                    <<"d","o","c","s","t","r","i","n","g">>, <<"i","n","l","i","n","e">>,
                    <<"c","o","d","e">>, <<"f","u","n","c","t","i","o","n">>,
                    <<"c","l","a","s","s">>>>],
       [name |-> "Installation & Setup",
        terms |-> <<<<"i","n","s","t","a","l","l">>, <<"s","e","t","u","p">>,
                    <<"c","o","n","f","i","g","u","r","a","t","i","o","n">>,
                    <<"d","e","p","l","o","y","m","e","n","t">>, <<"b","u","i","l","d">>>>],
       [name |-> "Support Documentation",
        terms |-> <<<<"t","r","o","u","b","l","e","s","h","o","o","t">>, <<"f","a","q">>,
                    <<"p","r","o","b","l","e","m">>, <<"i","s","s","u","e">>,
                    <<"h","e","l","p">>, <<"s","u","p","p","o","r","t">>>>] >>

\* The categories of _summarize_refactor in the order of its tests.
RefactorCategories ==
    << [name |-> "Code Architecture",
        terms |-> <<<<"s","t","r","u","c","t","u","r","e">>,
                    <<"a","r","c","h","i","t","e","c","t","u","r","e">>,
                    <<"o","r","g","a","n","i","z","e">>, <<"m","o","d","u","l","a","r">>,
                    <<"c","o","m","p","o","n","e","n","t">>, <<"c","l","a","s","s">>>>],
       [name |-> "Performance Optimization",
        terms |-> <<<<"p","e","r","f","o","r","m","a","n","c","e">>,
                    <<"o","p","t","i","m","i","z","e">>,
                    <<"e","f","f","i","c","i","e","n","t">>, <<"s","p","e","e","d">>,
                    <<"m","e","m","o","r","y">>, <<"c","a","c","h","e">>>>],
       [name |-> "Code Quality",
        terms |-> <<<<"c","l","e","a","n">>, <<"s","i","m","p","l","i","f","y">>,
                    <<"r","e","a","d","a","b","l","e">>,
                    <<"m","a","i","n","t","a","i","n","a","b","l","e">>,
                    <<"q","u","a","l","i","t","y">>, <<"s","t","a","n","d","a","r","d">>>>],
       [name |-> "API Design",
        terms |-> <<<<"a","p","i">>, <<"i","n","t","e","r","f","a","c","e">>,
                    <<"m","e","t","h","o","d">>, <<"f","u","n","c","t","i","o","n">>,
                    <<"s","i","g","n","a","t","u","r","e">>,
                    <<"e","n","d","p","o","i","n","t">>>>],
       [name |-> "Dependency Management",
        terms |-> <<<<"d","e","p","e","n","d","e","n","c","y">>,
                    <<"i","m","p","o","r","t">>, <<"p","a","c","k","a","g","e">>,
                    <<"m","o","d","u","l","e">>, <<"l","i","b","r","a","r","y">>,
                    <<"e","x","t","e","r","n","a","l">>>>] >>

\* The stop words _extract_key_terms uses when nltk is missing.
FallbackStopWords ==
    { <<"t","h","e">>, <<"a">>, <<"a","n">>, <<"a","n","d">>, <<"o","r">>,
        <<"b","u","t">>, <<"i","n">>, <<"o","n">>, <<"a","t">>, <<"t","o">>,
        <<"f","o","r">>, <<"o","f">>, <<"w","i","t","h">>, <<"b","y">>, <<"i","s">>,
        <<"a","r","e">>, <<"w","a","s">>, <<"w","e","r","e">> }

\* ["core functionality", "system capabilities"]
DefaultKeyAreas ==
    <<<<"c","o","r","e"," ","f","u","n","c","t","i","o","n","a","l","i","t","y">>,
      <<"s","y","s","t","e","m"," ","c","a","p","a","b","i","l","i","t","i","e","s">>>>

\* any(term in text for term in terms)
AnyTermIn(terms, text) == \E i \in 1..Len(terms) : Contains(text, terms[i])

\* [d for d in descriptions if any(term in d.lower() for term in terms)]
Matching(terms, descs) == SelectSeq(descs, LAMBDA d : AnyTermIn(terms, Lower(d)))

\* Mutant of ThemesOfDesc: a description goes to the first theme it matches only.
ThemesOfDescFirstOnly(desc) ==
    Take(SelectSeq(ThemeTable, LAMBDA t : AnyTermIn(t.terms, Lower(desc))), 1)

\* The themes whose test in _extract_themes the description passes, in the
\* order of the tests.
ThemesOfDesc(desc) ==
    SelectSeq(ThemeTable, LAMBDA t : AnyTermIn(t.terms, Lower(desc)))

\* themes[key].append(desc) for each of the themes ts in turn; themes is a
\* defaultdict(list), so a key is created by its first append.
RECURSIVE AppendToThemes(_, _, _)
AppendToThemes(d, ts, desc) ==
    IF ts = << >> THEN d
    ELSE AppendToThemes(GroupAppend(d, Head(ts).key, desc), Tail(ts), desc)

\* The loop of _extract_themes from description i on.
RECURSIVE ExtractThemesFrom(_, _, _)
ExtractThemesFrom(descs, i, d) ==
    IF i > Len(descs) THEN d
    ELSE ExtractThemesFrom(descs, i + 1, AppendToThemes(d, ThemesOfDesc(descs[i]), descs[i]))

\* CommitSummarizer._extract_themes(descriptions)
extractThemes(descs) == ExtractThemesFrom(descs, 1, << >>)

\* stop_words of _extract_key_terms: the nltk list, or the built-in fallback set.
KeyTermStopWords(withNltk) == IF withNltk THEN EnglishStopWords ELSE FallbackStopWords

\* str.isdigit() on the characters of the model
IsDigitString(w) == w # << >> /\ \A i \in 1..Len(w) : w[i] \in DigitChars

\* clean_words: the words of the joined, lower-cased texts without their
\* non-word characters, kept when longer than two characters, no stop word and
\* no number.
CleanWords(withNltk, texts) ==
    LET joined == Lower(Join(<<" ">>, texts))
        words == IF withNltk THEN WordTokenize(joined) ELSE Split(joined)
        clean == [i \in 1..Len(words) |-> StripNonWord(words[i])]
        stop == KeyTermStopWords(withNltk)
    IN  SelectSeq(clean, LAMBDA w : Len(w) > 2 /\ w \notin stop /\ ~IsDigitString(w))

\* The keys of collections.Counter(words): the different words in the order of
\* their first occurrence.
RECURSIVE CounterKeysFrom(_, _, _)
CounterKeysFrom(words, i, keys) ==
    IF i > Len(words) THEN keys
    ELSE CounterKeysFrom(words, i + 1,
             IF \E j \in 1..Len(keys) : keys[j] = words[i] THEN keys ELSE Append(keys, words[i]))

\* word_freq.items(), as the entries the stable sort takes
CounterItems(words) ==
    LET keys == CounterKeysFrom(words, 1, << >>)
    IN  [i \in 1..Len(keys) |-> [cand |-> keys[i], score |-> WordFreq(words, keys[i])]]

\* Mutant of extractKeyTerms: the default key areas stand in when no term is found.
extractKeyTermsOrDefaults(withNltk, texts) ==
    LET common == Take(SortByScoreDesc(CounterItems(CleanWords(withNltk, texts))), 10)
        kept == SelectSeq(common, LAMBDA e : e.score > 1)
    IN  IF kept = << >> THEN DefaultKeyAreas ELSE [i \in 1..Len(kept) |-> kept[i].cand]

\* CommitSummarizer._extract_key_terms(texts):
\* [word for word, count in word_freq.most_common(10) if count > 1]
extractKeyTerms(withNltk, texts) ==
    IF texts = << >> THEN << >>
    ELSE LET common == Take(SortByScoreDesc(CounterItems(CleanWords(withNltk, texts))), 10)
             kept == SelectSeq(common, LAMBDA e : e.score > 1)
         IN  [i \in 1..Len(kept) |-> kept[i].cand]

\* A piece of a summary text: the opening sentence of a category ("header"), the
\* paragraph of a theme ("theme"), the paragraph written when no theme matched
\* ("fallback"), the closing paragraph ("closing") or a one-sentence summary
\* ("line"); name is the title the text carries, count the number it reports and
\* terms the terms it lists.  A text is the sequence of its pieces, the empty
\* string the empty sequence.
Part(kind, name, count, terms) ==
    [kind |-> kind, name |-> name, count |-> count, terms |-> terms]

\* CommitSummarizer._summarize_features(descriptions, key_terms)
summarizeFeatures(descs, key_terms) ==
    IF descs = << >> THEN << >>
    ELSE LET descText == Lower(Join(<<" ">>, descs))
             hit == SelectSeq(FeatureThemes, LAMBDA t : AnyTermIn(t.gate, descText))
             keyAreas == IF key_terms # << >> THEN Take(key_terms, 5) ELSE DefaultKeyAreas
         IN  <<Part("header", "features", Len(descs), << >>)>>
             \o [i \in 1..Len(hit) |->
                    Part("theme", hit[i].name, Len(Matching(hit[i].terms, descs)), << >>)]
             \o (IF hit = << >>
                 THEN <<Part("fallback", "Core Enhancements", 0, keyAreas)>> ELSE << >>)

\* The body shared by _summarize_fixes, _summarize_docs and _summarize_refactor:
\* a paragraph for each category of the table that a description matches, a
\* fixed paragraph when there is none, and the closing paragraph.
CategorySummary(table, header, fallbackName, descs) ==
    IF descs = << >> THEN << >>
    ELSE LET hit == SelectSeq(table, LAMBDA t : Matching(t.terms, descs) # << >>)
         IN  <<Part("header", header, Len(descs), << >>)>>
             \o [i \in 1..Len(hit) |->
                    Part("theme", hit[i].name, Len(Matching(hit[i].terms, descs)), << >>)]
             \o (IF hit = << >> THEN <<Part("fallback", fallbackName, 0, << >>)>> ELSE << >>)
             \o <<Part("closing", header, 0, << >>)>>

\* CommitSummarizer._summarize_fixes(descriptions, key_terms)
summarizeFixes(descs, key_terms) ==
    CategorySummary(FixCategories, "fixes", "General Improvements", descs)

\* CommitSummarizer._summarize_docs(descriptions, key_terms)
summarizeDocs(descs, key_terms) ==
    CategorySummary(DocCategories, "documentation", "General Documentation", descs)

\* CommitSummarizer._summarize_refactor(descriptions, key_terms)
summarizeRefactor(descs, key_terms) ==
    CategorySummary(RefactorCategories, "refactoring", "General Refactoring", descs)

\* CommitSummarizer._summarize_tests(descriptions, key_terms)
summarizeTests(descs, key_terms) ==
    IF descs = << >> THEN << >> ELSE <<Part("line", "tests", Len(descs), << >>)>>

\* CommitSummarizer._summarize_performance(descriptions, key_terms)
summarizePerformance(descs, key_terms) ==
    IF descs = << >> THEN << >> ELSE <<Part("line", "performance", Len(descs), << >>)>>

\* A catch-all sentence that reports the number of key terms.
summarizeGeneralCountingTerms(ctype, descs, key_terms) ==
    IF descs = << >> THEN << >> ELSE <<Part("line", "general", Len(key_terms), <<ctype>>)>>

\* CommitSummarizer._summarize_general(commit_type, descriptions, key_terms):
\* the sentence cites the commit type.
summarizeGeneral(ctype, descs, key_terms) ==
    IF descs = << >> THEN << >> ELSE <<Part("line", "general", Len(descs), <<ctype>>)>>

\* CommitSummarizer._create_detailed_summary(commit_type, descriptions, all_text)
createDetailedSummary(withNltk, ctype, descs, texts) ==
    IF descs = << >> THEN << >>
    ELSE LET key_terms == extractKeyTerms(withNltk, texts)
         IN  IF ctype = kFeat THEN summarizeFeatures(descs, key_terms)
             ELSE IF ctype = kFix THEN summarizeFixes(descs, key_terms)
             ELSE IF ctype = kDocs THEN summarizeDocs(descs, key_terms)
             ELSE IF ctype = kRefactor THEN summarizeRefactor(descs, key_terms)
             ELSE IF ctype = kTest THEN summarizeTests(descs, key_terms)
             ELSE IF ctype = kPerf THEN summarizePerformance(descs, key_terms)
             ELSE summarizeGeneral(ctype, descs, key_terms)

\* What one commit adds to descriptions: its stripped description when the
\* description is not empty.
CommitDescriptions(c) ==
    LET p == parse(c.message)
    IN  IF p.desc # << >> THEN <<Strip(p.desc)>> ELSE << >>

\* What one commit adds to all_text: its description, and the first sentence of
\* its body when that is longer than ten characters.
CommitTexts(withNltk, c) ==
    LET p == parse(c.message)
        sent == IF ~IsNone(p.body) /\ p.body[1] # << >>
                THEN Strip(FirstSentence(withNltk, p.body[1])) ELSE << >>
    IN  CommitDescriptions(c) \o (IF Len(sent) > 10 THEN <<sent>> ELSE << >>)

\* descriptions of a group
RECURSIVE GroupDescriptions(_)
GroupDescriptions(items) ==
    IF items = << >> THEN << >>
    ELSE CommitDescriptions(Head(items)) \o GroupDescriptions(Tail(items))

\* all_text of a group
RECURSIVE GroupTexts(_, _)
GroupTexts(withNltk, items) ==
    IF items = << >> THEN << >>
    ELSE CommitTexts(withNltk, Head(items)) \o GroupTexts(withNltk, Tail(items))

\* Mutant of KeepSummary: every summary is stored.
KeepSummaryAlways(summary) == TRUE

\* if summary: summaries[ctype] = summary
KeepSummary(summary) == summary # << >>

\* CommitSummarizer.summarize(commits) of readme_generator/summarizer.py; a group
\* of the defaultdict has at least the commit that created it.
summarizeNarrative(withNltk, cs) ==
    LET gs == summarizeGroups(cs)
        made == [i \in 1..Len(gs) |->
                    [key |-> gs[i].key,
                     text |-> createDetailedSummary(withNltk, gs[i].key,
                                  GroupDescriptions(gs[i].items),
                                  GroupTexts(withNltk, gs[i].items))]]
    IN  SelectSeq(made, LAMBDA e : KeepSummary(e.text))

-----------------------------------------------------------------------------
(* The messages the parser is run on *)

\* The two messages of the documented scenarios.
ScenarioConventional ==
    <<"f","e","a","t","(","a","u","t","h",")",":"," ","a","d","d"," ","O","A","u","t","h"," ",
      "l","o","g","i","n","\n","\n","S","u","p","p","o","r","t","s"," ","G","o","o","g","l","e",
      " ","a","n","d"," ","G","i","t","H","u","b"," ","p","r","o","v","i","d","e","r","s",".">>
ScenarioFallback ==
    <<"F","i","x","e","d"," ","a"," ","c","r","a","s","h"," ","o","n"," ","s","t","a","r","t","u","p">>

\* Pieces that free-form messages are concatenated from.
Fragments ==
    { kFeat, <<"F","i","x">>, kTest, <<LongS,"t","y","l","e">>, <<"(","a",")">>,
      <<"!">>, <<":">>, <<" ">>, <<"\n">>, <<"\r">>, <<"x">> }

RECURSIVE FragSeqs(_)
FragSeqs(n) ==
    IF n = 0 THEN { << >> }
    ELSE LET shorter == FragSeqs(n - 1)
         IN  shorter \cup { m \o f : m \in shorter, f \in Fragments }

FreeMessages == FragSeqs(MaxFrags)

\* Messages laid out along the conventional grammar, each part in several spellings.
TypeSpellings ==
    { kFeat, <<"F","i","x">>, kDocs, <<"S","T","Y","L","E">>, <<LongS,"t","y","l","e">>,
      kRefactor, kPerf, kTest, kChore, <<"f","e","a","t","u","r","e">>, <<"x">> }
ScopeSpellings ==
    { << >>, <<"(","a",")">>, <<"(","A"," ","b",")">>, <<"(",")">>, <<"(","a">>,
      <<"(","a",")","b",")">> }
BangSpellings == { << >>, <<"!">>, <<"!","!">> }
ColonSpellings == { <<":">>, << >>, <<" ",":">> }
GapSpellings == { << >>, <<" ">>, <<" ","\t">> }
DescSpellings ==
    { << >>, <<"x">>, <<"a"," ","f","i","x"," ">>, <<"t","e","s","t",":"," ","y">> }
RestSpellings ==
    { << >>, <<"\n">>, <<"\n","\n"," ","y"," ","\n">>, <<"\r","\n","f","e","a","t",":"," ","z">> }

ConventionalMessages ==
    { t \o sc \o b \o c \o g \o d \o r :
        t \in TypeSpellings, sc \in ScopeSpellings, b \in BangSpellings,
        c \in ColonSpellings, g \in GapSpellings, d \in DescSpellings, r \in RestSpellings }

Messages ==
    FreeMessages \cup ConventionalMessages \cup {ScenarioConventional, ScenarioFallback}

-----------------------------------------------------------------------------
(* Specification of the parser: one message, parsed once *)

IdleParse == message = << >> /\ parsed = None
IdleGroup == commits = << >> /\ groups = None /\ sgroups = None
IdleRank == nltk = FALSE /\ candidates = << >> /\ ranked = None

varsParse == <<message, parsed>>
varsGroup == <<commits, groups, sgroups>>
varsRank == <<nltk, candidates, ranked>>

\* The state of the operations modelled further down, and its value where they
\* have not run.
varsRerank == <<reranked>>
varsBullet == <<topN, bullets>>
varsDetail == <<commitType, descriptions, allText, themes, keyTerms, detailed>>
varsNarrative == <<narrative>>
varsMain == <<nltkData, mainPc, exitCode, raisedAt, invoked, written>>
varsLater == <<varsRerank, varsBullet, varsDetail, varsNarrative, varsMain>>

IdleRerank == reranked = None
IdleBullet == topN = 0 /\ bullets = None
IdleDetail ==
    /\ commitType = << >> /\ descriptions = << >> /\ allText = << >>
    /\ themes = None /\ keyTerms = None /\ detailed = None
IdleNarrative == narrative = None
IdleMain ==
    /\ nltkData = FALSE /\ mainPc = "idle" /\ exitCode = None
    /\ raisedAt = None /\ invoked = {} /\ written = FALSE
IdleLater == IdleRerank /\ IdleBullet /\ IdleDetail /\ IdleNarrative /\ IdleMain

\* The state of the fetcher, of repeated parser calls, of the renderer, of the
\* categorizer's queries and of the standalone categorizer.
varsFetch == <<source, maxCommits, fetched>>
varsCalls == <<calls>>
varsRender == <<activity, markdown>>
varsQuery == <<commitTypes, byType>>
varsStandalone == <<messages, buckets>>
varsRest == <<varsFetch, varsCalls, varsRender, varsQuery, varsStandalone>>

IdleFetch == source = None /\ maxCommits = 0 /\ fetched = None
IdleCalls == calls = << >>
IdleRender == activity = None /\ markdown = None
IdleQuery == commitTypes = None /\ byType = None
IdleStandalone == messages = << >> /\ buckets = None
IdleRest == IdleFetch /\ IdleCalls /\ IdleRender /\ IdleQuery /\ IdleStandalone

InitParse ==
    /\ IdleRest
    /\ message \in Messages
    /\ parsed = None
    /\ IdleGroup
    /\ IdleRank
    /\ IdleLater

\* A call of CommitParser.parse on the message.
Parse ==
    /\ IsNone(parsed)
    /\ parsed' = Some(parse(message))
    /\ UNCHANGED <<varsRest, message, varsGroup, varsRank, varsLater>>

NextParse == Parse

SpecParse == InitParse /\ [][NextParse]_vars

-----------------------------------------------------------------------------
(* Specification of grouping: one commit list, grouped by both callers *)

\* The messages of the commits that are grouped: conventional, fallback, empty,
\* and one with a type spelled with U+017F.
GroupMessages ==
    { <<"f","e","a","t",":"," ","a">>, <<"f","i","x","(","a",")",":"," ","b">>,
      <<"F","i","x"," ","f","e","a","t">>, <<"x">>, << >>,
      <<LongS,"t","y","l","e",":","x">> }

\* A CommitInfo; the sha is the commit's position in the history, author and date
\* play no part in grouping.
CommitLists ==
    UNION { { [i \in 1..n |-> [sha |-> i, message |-> ms[i]]] : ms \in [1..n -> GroupMessages] } :
            n \in 0..MaxCommits }

InitGroup ==
    /\ IdleRest
    /\ commits \in CommitLists
    /\ groups = None
    /\ sgroups = None
    /\ IdleParse
    /\ IdleRank
    /\ IdleLater

\* A call of CommitCategorizer.categorize on the commit list.
Categorize ==
    /\ IsNone(groups)
    /\ groups' = Some(categorize(commits))
    /\ UNCHANGED <<varsRest, commits, sgroups, varsParse, varsRank, varsLater>>

\* The grouping loop of CommitSummarizer.summarize on the commit list.
SummarizeGrouping ==
    /\ IsNone(sgroups)
    /\ sgroups' = Some(summarizeGroups(commits))
    /\ UNCHANGED <<varsRest, commits, groups, varsParse, varsRank, varsLater>>

NextGroup == Categorize \/ SummarizeGrouping

SpecGroup == InitGroup /\ [][NextGroup]_vars

-----------------------------------------------------------------------------
(* Specification of ranking: one candidate list, ranked once *)

cAddLogin == <<"a","d","d"," ","l","o","g","i","n">>
cAddSignup == <<"a","d","d"," ","s","i","g","n","u","p">>
cAddLoginUpper == <<"A","D","D"," ","L","O","G","I","N">>
cTheLogin == <<"t","h","e"," ","l","o","g","i","n">>
cLoginCommaAdd == <<"l","o","g","i","n",",","a","d","d">>
cBang == <<"!">>

\* The candidate texts: the three of the documented scenario, one with a stop
\* word, one that the two tokenizers split differently, one without any token.
CandidateTexts == {cAddLogin, cAddSignup, cAddLoginUpper, cTheLogin, cLoginCommaAdd, cBang}

CandidateLists == UNION { [1..n -> CandidateTexts] : n \in 0..MaxCands }

InitRank ==
    /\ IdleRest
    /\ nltk \in BOOLEAN
    /\ candidates \in CandidateLists
    /\ ranked = None
    /\ IdleParse
    /\ IdleGroup
    /\ IdleLater

\* A call of _rank_candidates on the candidate list.
RankCandidates ==
    /\ IsNone(ranked)
    /\ ranked' = Some(rankCandidates(nltk, candidates))
    /\ UNCHANGED <<varsRest, nltk, candidates, varsParse, varsGroup, varsLater>>

NextRank == RankCandidates

SpecRank == InitRank /\ [][NextRank]_vars

-----------------------------------------------------------------------------
(* Specification of re-ranking: a candidate list ranked, and the result ranked *)

InitRerank == InitRank

\* A second call of _rank_candidates, on the list the first call returned.
RankAgain ==
    /\ ~IsNone(ranked)
    /\ IsNone(reranked)
    /\ reranked' = Some(rankCandidates(nltk, ranked[1]))
    /\ UNCHANGED <<varsRest, varsRank, varsParse, varsGroup,
                   varsBullet, varsDetail, varsNarrative, varsMain>>

NextRerank == RankCandidates \/ RankAgain

SpecRerank == InitRerank /\ [][NextRerank]_vars

-----------------------------------------------------------------------------
(* Specification of the bullet summaries: a commit list summarized *)

\* Commit messages with bodies: three of category feat with six different
\* candidates, one whose body repeats a description in capitals, one whose first
\* line is blank.
mLoginBody == <<"f","e","a","t",":"," ","a","b","\n","c","d","."," ","e","f">>
mFormBody == <<"f","e","a","t",":"," ","a","b"," ","c","d","\n","\n","e","f"," ","g","h","\n","i","j">>
mUpperBody == <<"f","e","a","t",":"," ","g","h","\n","A","B">>
mPlainBody == <<"f","e","a","t",":"," ","i","j","\n","k","l">>
mBlankFirst == <<" ","\n","a","b">>
BulletMessages == {mLoginBody, mFormBody, mUpperBody, mPlainBody, mBlankFirst}

BulletCommitLists ==
    UNION { { [i \in 1..n |-> [sha |-> i, message |-> ms[i]]] : ms \in [1..n -> BulletMessages] } :
            n \in 0..MaxCommits }

TopNs == {2, DefaultTopN}

InitBullet ==
    /\ IdleRest
    /\ commits \in BulletCommitLists
    /\ groups = None
    /\ sgroups = None
    /\ nltk \in BOOLEAN
    /\ candidates = << >>
    /\ ranked = None
    /\ topN \in TopNs
    /\ bullets = None
    /\ IdleParse
    /\ IdleRerank
    /\ IdleDetail
    /\ IdleNarrative
    /\ IdleMain

\* A call of CommitSummarizer.summarize of readme_generator.py.
SummarizeBullets ==
    /\ IsNone(bullets)
    /\ bullets' = Some(summarizeBullets(nltk, commits, topN))
    /\ UNCHANGED <<varsRest, topN, varsParse, varsGroup, varsRank,
                   varsRerank, varsDetail, varsNarrative, varsMain>>

NextBullet == SummarizeBullets

SpecBullet == InitBullet /\ [][NextBullet]_vars

-----------------------------------------------------------------------------
(* Specification of the narrative summary of one category *)

\* Descriptions: one of theme data, one of two themes with capitals, one with a
\* term of the joined-text tests only, one of a crash, one of no theme.
dSchema == <<"d","b"," ","s","c","h","e","m","a">>
dLoginApi == <<"L","o","g","i","n"," ","A","P","I">>
dPermission == <<"p","e","r","m","i","s","s","i","o","n">>
dCrash == <<"f","i","x"," ","c","r","a","s","h">>
dTidy == <<"t","i","d","y">>
DescriptionTexts == {dSchema, dLoginApi, dPermission, dCrash, dTidy}

\* A first sentence of a body, longer than ten characters.
sBody == <<"t","i","d","y"," ","t","h","e"," ","s","c","h","e","m","a"," ","t","h","e"," ","d","b">>

DescriptionLists == UNION { [1..n -> DescriptionTexts] : n \in 0..MaxDescs }

\* The commit types _create_detailed_summary tells apart, chore standing for
\* the types of its last branch.
DetailTypes == {kFeat, kFix, kDocs, kRefactor, kTest, kPerf, kChore, kStyle}

InitDetail ==
    /\ IdleRest
    /\ commitType \in DetailTypes
    /\ descriptions \in DescriptionLists
    /\ allText \in {descriptions, descriptions \o <<sBody>>}
    /\ nltk \in BOOLEAN
    /\ candidates = << >>
    /\ ranked = None
    /\ themes = None
    /\ keyTerms = None
    /\ detailed = None
    /\ IdleParse
    /\ IdleGroup
    /\ IdleRerank
    /\ IdleBullet
    /\ IdleNarrative
    /\ IdleMain

\* A call of _extract_themes on the descriptions.
ExtractThemes ==
    /\ IsNone(themes)
    /\ themes' = Some(extractThemes(descriptions))
    /\ UNCHANGED <<varsRest, commitType, descriptions, allText, keyTerms, detailed, varsParse,
                   varsGroup, varsRank, varsRerank, varsBullet, varsNarrative, varsMain>>

\* A call of _extract_key_terms on the texts.
ExtractKeyTerms ==
    /\ IsNone(keyTerms)
    /\ keyTerms' = Some(extractKeyTerms(nltk, allText))
    /\ UNCHANGED <<varsRest, commitType, descriptions, allText, themes, detailed, varsParse,
                   varsGroup, varsRank, varsRerank, varsBullet, varsNarrative, varsMain>>

\* A call of _create_detailed_summary.
CreateDetailedSummary ==
    /\ IsNone(detailed)
    /\ detailed' = Some(createDetailedSummary(nltk, commitType, descriptions, allText))
    /\ UNCHANGED <<varsRest, commitType, descriptions, allText, themes, keyTerms, varsParse,
                   varsGroup, varsRank, varsRerank, varsBullet, varsNarrative, varsMain>>

NextDetail == ExtractThemes \/ ExtractKeyTerms \/ CreateDetailedSummary

SpecDetail == InitDetail /\ [][NextDetail]_vars

-----------------------------------------------------------------------------
(* Specification of the narrative summaries: a commit list summarized *)

\* Commit messages: a feature, a fix with a body whose first sentence is longer
\* than ten characters, documentation, a message without a type, and a message
\* whose first line is blank.
nFeat == <<"f","e","a","t",":"," ","d","b"," ","s","c","h","e","m","a">>
nFixBody == <<"f","i","x",":"," ","f","i","x"," ","c","r","a","s","h","\n","\n",
              "t","i","d","y"," ","t","h","e"," ","s","c","h","e","m","a","."," ","o","k">>
nDocs == <<"d","o","c","s",":"," ","L","o","g","i","n"," ","A","P","I">>
nPlain == <<"t","i","d","y">>
nBlankFirst == <<" ","\n","a","b">>
NarrativeMessages == {nFeat, nFixBody, nDocs, nPlain, nBlankFirst}

NarrativeCommitLists ==
    UNION { { [i \in 1..n |-> [sha |-> i, message |-> ms[i]]] :
                ms \in [1..n -> NarrativeMessages] } : n \in 0..MaxCommits }

InitNarrative ==
    /\ IdleRest
    /\ commits \in NarrativeCommitLists
    /\ groups = None
    /\ sgroups = None
    /\ nltk \in BOOLEAN
    /\ candidates = << >>
    /\ ranked = None
    /\ narrative = None
    /\ IdleParse
    /\ IdleRerank
    /\ IdleBullet
    /\ IdleDetail
    /\ IdleMain

\* A call of CommitSummarizer.summarize of readme_generator/summarizer.py.
SummarizeNarrative ==
    /\ IsNone(narrative)
    /\ narrative' = Some(summarizeNarrative(nltk, commits))
    /\ UNCHANGED <<varsRest, varsParse, varsGroup, varsRank,
                   varsRerank, varsBullet, varsDetail, varsMain>>

NextNarrative == SummarizeNarrative

SpecNarrative == InitNarrative /\ [][NextNarrative]_vars

-----------------------------------------------------------------------------
(* Specification of the summarizer's operations, each on an input of its own *)

\* The inputs of the operations: lists of each length up to the bound, the
\* empty list among them.
CommitInputs ==
    { [i \in 1..n |-> [sha |-> i, message |-> nPlain]] : n \in 0..MaxInputs }
CandidateInputs == { [i \in 1..n |-> cAddLogin] : n \in 0..MaxInputs }
DescriptionInputs == { [i \in 1..n |-> dLoginApi] : n \in 0..MaxInputs }
TextInputs == { [i \in 1..n |-> dTidy] : n \in 0..MaxInputs }

InitOperations ==
    /\ IdleRest
    /\ commits \in CommitInputs
    /\ groups = None
    /\ sgroups = None
    /\ nltk \in BOOLEAN
    /\ candidates \in CandidateInputs
    /\ ranked = None
    /\ topN = DefaultTopN
    /\ bullets = None
    /\ commitType = << >>
    /\ descriptions \in DescriptionInputs
    /\ allText \in TextInputs
    /\ themes = None
    /\ keyTerms = None
    /\ detailed = None
    /\ narrative = None
    /\ IdleParse
    /\ IdleRerank
    /\ IdleMain

NextOperations ==
    \/ RankCandidates
    \/ ExtractThemes
    \/ ExtractKeyTerms
    \/ SummarizeBullets
    \/ SummarizeNarrative

SpecOperations == InitOperations /\ [][NextOperations]_vars

-----------------------------------------------------------------------------
(* Specification of a command-line run: main() of readme_generator/main.py *)

\* The run starts with the arguments parsed.  nltk tells whether `import nltk`
\* succeeded, nltkData whether the punkt model and the stop-word corpus can be
\* loaded once CommitSummarizer.__init__ has looked for them (and tried to
\* download what it did not find).
InitMain ==
    /\ IdleRest
    /\ nltk \in BOOLEAN
    /\ nltkData \in BOOLEAN
    /\ nltk = FALSE => nltkData = FALSE
    /\ mainPc = "check"
    /\ exitCode = None
    /\ raisedAt = None
    /\ invoked = {}
    /\ written = FALSE
    /\ commits = << >>
    /\ groups = None
    /\ sgroups = None
    /\ candidates = << >>
    /\ ranked = None
    /\ narrative = None
    /\ IdleParse
    /\ IdleRerank
    /\ IdleBullet
    /\ IdleDetail

\* An exception that is logged and swallowed: the run ends with status 0.
RaiseSwallowed(step) ==
    /\ mainPc' = "done"
    /\ exitCode' = Some(0)
    /\ raisedAt' = Some(step)

\* An exception raised by a step: `except Exception` logs it and calls
\* sys.exit(1); SystemExit(1) of the nltk check is no Exception and ends the run
\* with the same status.
Raise(step) ==
    /\ mainPc' = "done"
    /\ exitCode' = Some(1)
    /\ raisedAt' = Some(step)

\* if nltk is None: logger.error(...); raise SystemExit(1)
CheckNltk ==
    /\ mainPc = "check"
    /\ IF nltk
       THEN mainPc' = "fetcher" /\ UNCHANGED <<exitCode, raisedAt>>
       ELSE Raise("check")
    /\ UNCHANGED <<varsRest, nltkData, invoked, written, narrative, varsParse, varsGroup, varsRank,
                   varsRerank, varsBullet, varsDetail>>

\* fetcher = GitHubFetcher(token=args.token); the client may fail to initialize.
InitFetcher ==
    /\ mainPc = "fetcher"
    /\ invoked' = invoked \cup {"fetcher"}
    /\ \E ok \in BOOLEAN :
           IF ok
           THEN mainPc' = "meta" /\ UNCHANGED <<exitCode, raisedAt>>
           ELSE Raise("fetcher")
    /\ UNCHANGED <<varsRest, nltkData, written, narrative, varsParse, varsGroup, varsRank,
                   varsRerank, varsBullet, varsDetail>>

\* meta = fetcher.fetch_repo_meta(args.user, args.repo)
FetchMeta ==
    /\ mainPc = "meta"
    /\ invoked' = invoked \cup {"meta"}
    /\ \E ok \in BOOLEAN :
           IF ok
           THEN mainPc' = "commits" /\ UNCHANGED <<exitCode, raisedAt>>
           ELSE Raise("meta")
    /\ UNCHANGED <<varsRest, nltkData, written, narrative, varsParse, varsGroup, varsRank,
                   varsRerank, varsBullet, varsDetail>>

\* commits = fetcher.fetch_commits(...): a commit list, or an exception.
FetchCommits ==
    /\ mainPc = "commits"
    /\ invoked' = invoked \cup {"commits"}
    /\ \/ /\ \E cs \in NarrativeCommitLists : commits' = cs
          /\ mainPc' = "empty"
          /\ UNCHANGED <<exitCode, raisedAt>>
       \/ /\ Raise("commits")
          /\ UNCHANGED commits
    /\ UNCHANGED <<varsRest, nltkData, written, narrative, groups, sgroups, varsParse, varsRank,
                   varsRerank, varsBullet, varsDetail>>

\* The run without the test for an empty commit list: it always goes on to
\* summarize.
CheckCommitsNoReturn ==
    /\ mainPc = "empty"
    /\ mainPc' = "summarize"
    /\ UNCHANGED <<varsRest, exitCode, nltkData, raisedAt, invoked, written, narrative, varsParse,
                   varsGroup, varsRank, varsRerank, varsBullet, varsDetail>>

\* if not commits: warning; return
CheckCommits ==
    /\ mainPc = "empty"
    /\ IF commits = << >>
       THEN mainPc' = "done" /\ exitCode' = Some(0)
       ELSE mainPc' = "summarize" /\ UNCHANGED exitCode
    /\ UNCHANGED <<varsRest, nltkData, raisedAt, invoked, written, narrative, varsParse, varsGroup,
                   varsRank, varsRerank, varsBullet, varsDetail>>

\* Whether summarize reaches sent_tokenize (a commit with a body) or
\* stopwords.words (a group with a description) for the commit list.
UsesNltkData(cs) ==
    \E i \in 1..Len(cs) :
        LET p == parse(cs[i].message)
        IN  p.desc # << >> \/ (~IsNone(p.body) /\ p.body[1] # << >>)

\* summarizer = CommitSummarizer(...); summaries = summarizer.summarize(commits).
\* nltk is imported here; without its data sent_tokenize and stopwords.words
\* raise LookupError.
Summarize ==
    /\ mainPc = "summarize"
    /\ invoked' = invoked \cup {"summarize"}
    /\ IF ~nltkData /\ UsesNltkData(commits)
       THEN Raise("summarize") /\ UNCHANGED narrative
       ELSE /\ narrative' = Some(summarizeNarrative(nltk, commits))
            /\ mainPc' = "render"
            /\ UNCHANGED <<exitCode, raisedAt>>
    /\ UNCHANGED <<varsRest, nltkData, written, varsParse, varsGroup, varsRank,
                   varsRerank, varsBullet, varsDetail>>

\* md = generator.generate_markdown(meta, summaries, commits)
Render ==
    /\ mainPc = "render"
    /\ invoked' = invoked \cup {"render"}
    /\ \E ok \in BOOLEAN :
           IF ok
           THEN mainPc' = "write" /\ UNCHANGED <<exitCode, raisedAt>>
           ELSE Raise("render")
    /\ UNCHANGED <<varsRest, nltkData, written, narrative, varsParse, varsGroup, varsRank,
                   varsRerank, varsBullet, varsDetail>>

\* with open(args.output, "w") as f: f.write(md); the run then returns.  When
\* the step raises, the file may or may not have been opened.
Write ==
    /\ mainPc = "write"
    /\ invoked' = invoked \cup {"write"}
    /\ \/ /\ written' = TRUE
          /\ mainPc' = "done"
          /\ exitCode' = Some(0)
          /\ UNCHANGED raisedAt
       \/ /\ written' \in BOOLEAN
          /\ Raise("write")
    /\ UNCHANGED <<varsRest, nltkData, narrative, varsParse, varsGroup, varsRank,
                   varsRerank, varsBullet, varsDetail>>

\* except KeyboardInterrupt: ...; sys.exit(1)
Interrupt ==
    /\ mainPc # "done"
    /\ Raise("interrupt")
    /\ UNCHANGED <<varsRest, nltkData, invoked, written, narrative, varsParse, varsGroup, varsRank,
                   varsRerank, varsBullet, varsDetail>>

NextMain ==
    \/ CheckNltk
    \/ InitFetcher
    \/ FetchMeta
    \/ FetchCommits
    \/ CheckCommits
    \/ Summarize
    \/ Render
    \/ Write
    \/ Interrupt

SpecMain == InitMain /\ [][NextMain]_vars

-----------------------------------------------------------------------------
(* Claims about CommitParser.parse, stated without the parser's own matcher *)

\* The eight categories.
Categories == {kFeat, kFix, kDocs, kStyle, kRefactor, kPerf, kTest, kChore}

\* The text before the first line boundary.
ClaimFirstLine(m) ==
    LET brk == {i \in 1..Len(m) : IsLineBreak(m[i])}
    IN  IF brk = {} THEN m
        ELSE SubSeq(m, 1, (CHOOSE i \in brk : \A j \in brk : i <= j) - 1)

\* The body the claims expect: the lines after the first, joined and trimmed.
ClaimBody(m) ==
    LET lines == SplitLines(m)
    IN  IF Len(lines) > 1 THEN Some(Strip(Join(<<"\n">>, Tail(lines)))) ELSE None

\* Every way to read line as <type>[(<scope>)][!]: <description>; each reading is
\* the tuple the claim expects for it, without the body.
ConventionalReadings(line) ==
    LET n == Len(line)
        types == {k \in 1..Len(TypeAlternatives) : MatchLiteralI(line, 1, TypeAlternatives[k])}
        \* 0: no scope; c: the scope is closed at position c
        scopeEnds(p) ==
            {0} \cup {c \in (p + 2)..n :
                        /\ line[p] = "(" /\ line[c] = ")"
                        /\ \A j \in (p + 1)..(c - 1) : line[j] # ")"}
        \* the colon directly after the scope, or after one "!"
        colons(a) ==
            {q \in {a, a + 1} : /\ q < n /\ line[q] = ":"
                                /\ (q = a \/ line[a] = "!")}
        reading(k, c, q) ==
            [ctype |-> Lower(SubSeq(line, 1, Len(TypeAlternatives[k]))),
             scope |-> IF c = 0 THEN None
                       ELSE Some(SubSeq(line, Len(TypeAlternatives[k]) + 2, c - 1)),
             desc |-> Strip(SubSeq(line, q + 1, n))]
    IN  UNION { UNION { { reading(k, c, q) :
                            q \in colons(IF c = 0 THEN Len(TypeAlternatives[k]) + 1 ELSE c + 1) } :
                        c \in scopeEnds(Len(TypeAlternatives[k]) + 1) } :
                k \in types }

\* C1: when the first line reads as <type>[(<scope>)][!]: <description>, parse
\* returns the matched type lower-cased, the parenthesized scope (none when there is
\* none), the trimmed text after the colon, and as body the trimmed join of the
\* lines after the first (none when there is no such line).
C1_ConventionalResult ==
    ~IsNone(parsed) =>
        \A r \in ConventionalReadings(ClaimFirstLine(message)) :
            parsed[1] = [ctype |-> r.ctype, scope |-> r.scope, desc |-> r.desc,
                         body |-> ClaimBody(message)]

\* The documented scenario, parsed.
C1_Witness ==
    /\ message = ScenarioConventional
    /\ parsed = Some([ctype |-> kFeat, scope |-> Some(<<"a","u","t","h">>),
                      desc |-> <<"a","d","d"," ","O","A","u","t","h"," ","l","o","g","i","n">>,
                      body |-> Some(<<"S","u","p","p","o","r","t","s"," ","G","o","o","g","l","e",
                                      " ","a","n","d"," ","G","i","t","H","u","b"," ",
                                      "p","r","o","v","i","d","e","r","s",".">>)])

\* The priority order the fallback claim names.
ClaimPriority == <<kFeat, kFix, kDocs, kRefactor, kPerf, kTest, kStyle>>

\* A keyword counts as found: as a prefix, followed by a colon anywhere, or as a
\* word delimited by whitespace or the ends of the line.
ClaimFound(line, t) ==
    \/ (Len(t) <= Len(line) /\ \A i \in 1..Len(t) : line[i] = t[i])
    \/ \E a \in 1..(Len(line) - Len(t)) :
          /\ \A i \in 1..Len(t) : line[a + i - 1] = t[i]
          /\ line[a + Len(t)] = ":"
    \/ \E a \in 1..(Len(line) - Len(t) + 1) :
          /\ \A i \in 1..Len(t) : line[a + i - 1] = t[i]
          /\ (a = 1 \/ IsSpace(line[a - 1]))
          /\ (a + Len(t) - 1 = Len(line) \/ IsSpace(line[a + Len(t)]))

\* C2: when the first line does not read as a conventional line, the category is
\* the first keyword of the priority order found in the lower-cased first line
\* (chore when none is), the scope is none and the description is the trimmed
\* first line, prefix included; so "Fixed a crash on startup" is a fix described by
\* the whole line.
C2_FallbackResult ==
    LET line == ClaimFirstLine(message)
        low == Lower(line)
        hits == {i \in 1..Len(ClaimPriority) : ClaimFound(low, ClaimPriority[i])}
    IN  (~IsNone(parsed) /\ ConventionalReadings(line) = {}) =>
            /\ parsed[1].scope = None
            /\ parsed[1].desc = Strip(line)
            /\ parsed[1].ctype =
                 IF hits = {} THEN kChore
                 ELSE ClaimPriority[CHOOSE i \in hits : \A j \in hits : i <= j]
            /\ message = ScenarioFallback =>
                 parsed[1] = [ctype |-> kFix, scope |-> None, desc |-> ScenarioFallback,
                              body |-> None]

\* A fallback line where "fix" comes first in the text and "feat" wins.
C2_Witness ==
    /\ message = <<"F","i","x"," ","f","e","a","t">>
    /\ parsed = Some([ctype |-> kFeat, scope |-> None,
                      desc |-> <<"F","i","x"," ","f","e","a","t">>, body |-> None])

\* C3 (as claimed): for every non-empty message the category parse returns is one
\* of the eight categories.
C3_CategoryInSet ==
    (~IsNone(parsed) /\ message # << >>) => parsed[1].ctype \in Categories

\* C4 (as claimed): for every non-empty message the description parse returns is
\* not empty.
C4_DescriptionNonEmpty ==
    (~IsNone(parsed) /\ message # << >>) => parsed[1].desc # << >>

\* C5: the empty message parses to category chore, the empty description, no
\* scope and no body.
C5_EmptyMessage ==
    (~IsNone(parsed) /\ message = << >>) =>
        parsed[1] = [ctype |-> kChore, scope |-> None, desc |-> << >>, body |-> None]

\* The empty message, parsed.
C5_Witness == message = << >> /\ ~IsNone(parsed)

-----------------------------------------------------------------------------
(* Claims about grouping *)

\* The places (group, position) of a groups dict that hold commit c.
PlacesOf(d, c) ==
    {<<g, j>> \in (1..Len(d)) \X (1..Len(commits)) : j <= Len(d[g].items) /\ d[g].items[j] = c}

RECURSIVE SumOfSizes(_)
SumOfSizes(d) == IF d = << >> THEN 0 ELSE Len(Head(d).items) + SumOfSizes(Tail(d))

\* Every commit of the list is at exactly one place of d, and d holds nothing else.
IsPartitionOfCommits(d) ==
    /\ SumOfSizes(d) = Len(commits)
    /\ \A i \in 1..Len(commits) : Cardinality(PlacesOf(d, commits[i])) = 1
    /\ \A g1, g2 \in 1..Len(d) : d[g1].key = d[g2].key => g1 = g2

\* C6: both groupings put every commit of the list in exactly one group: the group
\* sizes sum to the length of the list, no commit is missing and none is in two.
C6_GroupingComplete ==
    /\ ~IsNone(groups) => IsPartitionOfCommits(groups[1])
    /\ ~IsNone(sgroups) => IsPartitionOfCommits(sgroups[1])

\* Three commits grouped by both callers into two groups or more, one of them with
\* two commits.
C6_Witness ==
    /\ Len(commits) = 3
    /\ ~IsNone(groups) /\ ~IsNone(sgroups)
    /\ Len(groups[1]) >= 2
    /\ \E g \in 1..Len(sgroups[1]) : Len(sgroups[1][g].items) = 2

\* Within each group of d the commits are in the order of the list.
KeepsListOrder(d) ==
    \A g \in 1..Len(d) :
        \A j1, j2 \in 1..Len(d[g].items) :
            j1 < j2 => d[g].items[j1].sha < d[g].items[j2].sha

\* C7: within every group, of either grouping, the commits keep the relative order
\* they have in the input list (the sha of the model is the position in the list).
C7_GroupOrder ==
    /\ ~IsNone(groups) => KeepsListOrder(groups[1])
    /\ ~IsNone(sgroups) => KeepsListOrder(sgroups[1])

\* A group holding the first and the third commit, the second being elsewhere.
C7_Witness ==
    /\ ~IsNone(groups) /\ ~IsNone(sgroups)
    /\ \E g \in 1..Len(groups[1]) :
          /\ Len(groups[1][g].items) = 2
          /\ groups[1][g].items[1].sha = 1
          /\ groups[1][g].items[2].sha = 3
    /\ \E g \in 1..Len(sgroups[1]) :
          /\ Len(sgroups[1][g].items) = 2
          /\ sgroups[1][g].items[1].sha = 1
          /\ sgroups[1][g].items[2].sha = 3

-----------------------------------------------------------------------------
(* Claims about _rank_candidates *)

\* The score the claims give a text among the candidates: the number of matches
\* between a token of the text and a token occurrence of any candidate.
ClaimScore(text) ==
    LET mine == FilteredTokens(nltk, text)
        theirs == TokenizedCandidates(nltk, candidates)
        longest == Len(Flatten(theirs))
    IN  Cardinality({x \in (1..Len(mine)) \X (1..Len(theirs)) \X (1..longest) :
                        x[3] <= Len(theirs[x[2]]) /\ theirs[x[2]][x[3]] = mine[x[1]]})

\* The claims' scores of the entries of the output.
RankedScores == [i \in 1..Len(ranked[1]) |-> ClaimScore(ranked[1][i])]

\* The first position of a text in the candidate list.
FirstPosition(text) ==
    CHOOSE i \in 1..Len(candidates) :
        candidates[i] = text /\ \A j \in 1..(i - 1) : candidates[j] # text

\* C8: with each candidate scored by the sum of the frequencies of its normalized,
\* stop-word-filtered tokens over the same candidate list, the output is in
\* non-increasing score order: no entry follows an entry of strictly lower score.
C8_ScoreOrder ==
    ~IsNone(ranked) =>
        /\ \A i \in 1..Len(ranked[1]) : \E k \in 1..Len(candidates) : candidates[k] = ranked[1][i]
        /\ LET score == RankedScores
           IN  \A i, j \in 1..Len(ranked[1]) : i < j => score[i] >= score[j]

\* A ranking that moved a later, higher-scored candidate to the front.
C8_Witness ==
    /\ ~IsNone(ranked)
    /\ candidates = <<cBang, cAddSignup, cAddLogin>>
    /\ Len(ranked[1]) = 3
    /\ ClaimScore(ranked[1][1]) > ClaimScore(ranked[1][3])
    /\ ranked[1][3] = cBang

\* C9: two entries of the output with equal scores are in the order their texts
\* have in the input.
C9_StableTies ==
    ~IsNone(ranked) =>
        LET score == RankedScores
        IN  \A i, j \in 1..Len(ranked[1]) :
                (i < j /\ score[i] = score[j]) =>
                    FirstPosition(ranked[1][i]) < FirstPosition(ranked[1][j])

\* Two different texts of equal score, apart in the input, kept in input order.
C9_Witness ==
    /\ ~IsNone(ranked)
    /\ candidates = <<cAddSignup, cBang, cAddLogin>>
    /\ ranked[1] = <<cAddSignup, cAddLogin, cBang>>
    /\ RankedScores[1] = RankedScores[2]
    /\ RankedScores[2] > RankedScores[3]

\* C10: no two entries of the output are equal when case is ignored, and every
\* text of the input, case ignored, is in the output exactly once; so the
\* documented three candidates rank to "add login", "add signup".
C10_Deduplicated ==
    ~IsNone(ranked) =>
        /\ \A i, j \in 1..Len(ranked[1]) :
              Lower(ranked[1][i]) = Lower(ranked[1][j]) => i = j
        /\ \A k \in 1..Len(candidates) :
              Cardinality({i \in 1..Len(ranked[1]) : Lower(ranked[1][i]) = Lower(candidates[k])}) = 1
        /\ candidates = <<cAddLogin, cAddSignup, cAddLoginUpper>> =>
              ranked[1] = <<cAddLogin, cAddSignup>>

\* The documented scenario, ranked.
C10_Witness ==
    /\ candidates = <<cAddLogin, cAddSignup, cAddLoginUpper>>
    /\ ranked = Some(<<cAddLogin, cAddSignup>>)

-----------------------------------------------------------------------------
(* Claims about ranking twice *)

\* No two candidates are equal when case is ignored.
NoCaseDuplicates ==
    \A i, j \in 1..Len(candidates) :
        Lower(candidates[i]) = Lower(candidates[j]) => i = j

\* C11 (as claimed): ranking the output of a ranking returns it unchanged, for every
\* candidate list, lists with duplicates included.
C11_Idempotent ==
    ~IsNone(reranked) => reranked[1] = ranked[1]

\* C11 (amended): ranking the output of a ranking returns it unchanged when no two
\* candidates of the list are equal ignoring case.
C11_IdempotentWithoutDuplicates ==
    (~IsNone(reranked) /\ NoCaseDuplicates) => reranked[1] = ranked[1]

\* Three different candidates that the first ranking reordered, ranked again.
C11_Witness ==
    /\ ~IsNone(reranked)
    /\ NoCaseDuplicates
    /\ candidates = <<cBang, cAddSignup, cAddLogin>>
    /\ ranked[1] = <<cAddSignup, cAddLogin, cBang>>
    /\ reranked[1] = ranked[1]

-----------------------------------------------------------------------------
(* Claims about the bullet summaries *)

\* The commits of the list classified to category k, in list order.
CommitsOfCategory(k) ==
    SelectSeq(commits, LAMBDA c : parse(c.message).ctype = k)

\* The candidates as the claim lists them: each commit's description, followed
\* by the first sentence of its body when it has one.
RECURSIVE ClaimCandidates(_)
ClaimCandidates(items) ==
    IF items = << >> THEN << >>
    ELSE LET p == parse(Head(items).message)
         IN  <<p.desc>>
             \o (IF ~IsNone(p.body) /\ p.body[1] # << >>
                 THEN <<FirstSentence(nltk, p.body[1])>> ELSE << >>)
             \o ClaimCandidates(Tail(items))

\* C12: the summary of each category is the first N entries of the ranking of the
\* category's candidates (description, then first sentence of the body, in commit
\* order); it has at most N entries and each is one of the candidates.
C12_TopNOfCandidates ==
    ~IsNone(bullets) =>
        \A i \in 1..Len(bullets[1]) :
            LET cands == ClaimCandidates(CommitsOfCategory(bullets[1][i].key))
                items == bullets[1][i].items
            IN  /\ items = Take(rankCandidates(nltk, cands), topN)
                /\ Len(items) <= topN
                /\ Range(items) \subseteq Range(cands)

-----------------------------------------------------------------------------
(* Claims about thematic clustering and the narrative summary of a category *)

\* Some term of the list occurs in the description when case is ignored.
ClaimMatches(desc, terms) ==
    \E n \in 1..Len(terms) :
        \E i \in 1..Len(desc) :
            /\ i + Len(terms[n]) - 1 <= Len(desc)
            /\ \A j \in 1..Len(terms[n]) : LowerChar(desc[i + j - 1]) = terms[n][j]

\* The descriptions matching the term list, in input order.
ClaimMatching(terms) == SelectSeq(descriptions, LAMBDA d : ClaimMatches(d, terms))

ThemeKeys == {ThemeTable[i].key : i \in 1..Len(ThemeTable)}

\* C13: the clustering holds, for each theme, exactly the descriptions in which a
\* keyword of the theme occurs ignoring case (so a description is under every
\* theme it matches and under none when it matches none), and there is no theme
\* key without a matching description.
C13_NonExclusive ==
    ~IsNone(themes) =>
        /\ DictKeys(themes[1]) \subseteq ThemeKeys
        /\ \A i, j \in 1..Len(themes[1]) : themes[1][i].key = themes[1][j].key => i = j
        /\ \A n \in 1..Len(ThemeTable) :
               LET k == ThemeTable[n].key
                   matching == ClaimMatching(ThemeTable[n].terms)
               IN  IF matching = << >>
                   THEN k \notin DictKeys(themes[1])
                   ELSE /\ k \in DictKeys(themes[1])
                        /\ themes[1][DictIndex(themes[1], k)].items = matching

\* A description of two themes and a description of none, clustered.
C13_Witness ==
    /\ descriptions = <<dLoginApi, dTidy>>
    /\ ~IsNone(themes)
    /\ Len(themes[1]) = 2
    /\ themes[1][1] = [key |-> "authentication", items |-> <<dLoginApi>>]
    /\ themes[1][2] = [key |-> "api", items |-> <<dLoginApi>>]

\* The place of a theme key in the theme table.
ThemeRank(k) == CHOOSE n \in 1..Len(ThemeTable) : ThemeTable[n].key = k

\* The paragraph titles of a category in the order its summarizer declares them.
TitlesOf(ctype) ==
    LET table == IF ctype = kFeat THEN FeatureThemes
                 ELSE IF ctype = kFix THEN FixCategories
                 ELSE IF ctype = kDocs THEN DocCategories
                 ELSE IF ctype = kRefactor THEN RefactorCategories
                 ELSE << >>
    IN  [n \in 1..Len(table) |-> table[n].name]

TitleRank(ctype, name) ==
    CHOOSE n \in 1..Len(TitlesOf(ctype)) : TitlesOf(ctype)[n] = name

\* The themed paragraphs of a summary text.
ThemeParts(text) == SelectSeq(text, LAMBDA part : part.kind = "theme")

\* C14: the themes of the clustering output and the themed paragraphs of a
\* summary come in the declaration order of their table, and the descriptions of
\* a theme keep their input order.
C14_DeclarationOrder ==
    /\ ~IsNone(themes) =>
           /\ \A i, j \in 1..Len(themes[1]) :
                  i < j => ThemeRank(themes[1][i].key) < ThemeRank(themes[1][j].key)
           /\ \A i \in 1..Len(themes[1]) :
                  themes[1][i].items =
                      SelectSeq(descriptions, LAMBDA d : d \in Range(themes[1][i].items))
    /\ ~IsNone(detailed) =>
           LET parts == ThemeParts(detailed[1])
           IN  \A i, j \in 1..Len(parts) :
                   i < j => TitleRank(commitType, parts[i].name)
                                < TitleRank(commitType, parts[j].name)

\* The categories with themed templates.
ThemedTypes == {kFeat, kFix, kDocs, kRefactor}

\* The themes of a category with the keyword set that decides whether the
\* theme's paragraph is written.
ClaimThemes(ctype) ==
    IF ctype = kFeat
    THEN [n \in 1..Len(FeatureThemes) |->
             [name |-> FeatureThemes[n].name, terms |-> FeatureThemes[n].gate]]
    ELSE IF ctype = kFix THEN FixCategories
    ELSE IF ctype = kDocs THEN DocCategories
    ELSE RefactorCategories

\* C15: for a category with themed templates the paragraph of theme T is written
\* exactly when a description matches T's keyword set, it reports the number of
\* descriptions matching that set, and no themed paragraph reports 0.
C15_ThemedParagraphs ==
    (~IsNone(detailed) /\ commitType \in ThemedTypes) =>
        LET parts == ThemeParts(detailed[1])
            table == ClaimThemes(commitType)
        IN  /\ \A n \in 1..Len(table) :
                   LET matched == Len(ClaimMatching(table[n].terms))
                   IN  /\ matched > 0 <=> \E i \in 1..Len(parts) : parts[i].name = table[n].name
                       /\ \A i \in 1..Len(parts) :
                              parts[i].name = table[n].name => parts[i].count = matched
            /\ \A i \in 1..Len(parts) : parts[i].count > 0

\* C16: when no theme matches a description of a category with themed templates,
\* the summary has a fallback paragraph that names the top terms of the frequency
\* analysis over the descriptions of the category.
C16_FallbackNamesTerms ==
    (/\ ~IsNone(detailed)
     /\ commitType \in ThemedTypes
     /\ descriptions # << >>
     /\ ThemeParts(detailed[1]) = << >>) =>
        LET top == Take(extractKeyTerms(nltk, descriptions), 5)
        IN  \E i \in 1..Len(detailed[1]) :
                /\ detailed[1][i].kind = "fallback"
                /\ top # << >> => detailed[1][i].terms = top

-----------------------------------------------------------------------------
(* Claims about the narrative driver and about empty inputs *)

\* The categories the commits of the list were classified to.
CategoriesOfCommits == {parse(commits[i].message).ctype : i \in 1..Len(commits)}

\* C17: the driver's mapping has entries only for categories some commit was
\* classified to and no entry whose text is empty; the summarizer of a category
\* returns the empty text for no descriptions, and such a category has no entry.
C17_NoEntryForAbsent ==
    ~IsNone(narrative) =>
        /\ \A i \in 1..Len(narrative[1]) :
               /\ narrative[1][i].key \in CategoriesOfCommits
               /\ narrative[1][i].text # << >>
        /\ \A k \in Categories \ CategoriesOfCommits :
               /\ createDetailedSummary(nltk, k, << >>, << >>) = << >>
               /\ k \notin DictKeys(narrative[1])

\* A feature commit and a commit with a blank first line, summarized: the group
\* of the second has no description, its text is empty and it has no entry.
C17_Witness ==
    /\ Len(commits) = 2
    /\ commits[1].message = nFeat
    /\ commits[2].message = nBlankFirst
    /\ ~IsNone(narrative)
    /\ DictKeys(narrative[1]) = {kFeat}
    /\ kChore \in CategoriesOfCommits

\* C18: the ranker, the clusterer, the key-term extractor and both summarizers
\* return an empty result for an empty input.
C18_EmptyInputs ==
    /\ (candidates = << >> /\ ~IsNone(ranked)) => ranked[1] = << >>
    /\ (descriptions = << >> /\ ~IsNone(themes)) => themes[1] = << >>
    /\ (allText = << >> /\ ~IsNone(keyTerms)) => keyTerms[1] = << >>
    /\ (commits = << >> /\ ~IsNone(bullets)) => bullets[1] = << >>
    /\ (commits = << >> /\ ~IsNone(narrative)) => narrative[1] = << >>

\* The five operations applied to empty inputs.
C18_Witness ==
    /\ commits = << >> /\ candidates = << >> /\ descriptions = << >> /\ allText = << >>
    /\ ranked = Some(<< >>)
    /\ themes = Some(<< >>)
    /\ keyTerms = Some(<< >>)
    /\ bullets = Some(<< >>)
    /\ narrative = Some(<< >>)

-----------------------------------------------------------------------------
(* Claims about the frequency analysis without nltk *)

\* Stop words the claim names.
ClaimStopWords == { <<"t","h","e">>, <<"a","n","d">>, <<"o","f">> }

\* The words of a candidate that count when stop words are left out.
ClaimCountedWords(cand) ==
    LET raw == Split(Lower(cand))
        stripped == [i \in 1..Len(raw) |-> StripNonWord(raw[i])]
    IN  SelectSeq(stripped, LAMBDA w : w # << >> /\ w \notin ClaimStopWords)

\* The score of candidate i over a frequency table without stop words.
ClaimScoreWithoutStopWords(i) ==
    LET table == Flatten([j \in 1..Len(candidates) |-> ClaimCountedWords(candidates[j])])
        words == ClaimCountedWords(candidates[i])
    IN  SumSeq([j \in 1..Len(words) |-> WordFreq(table, words[j])])

\* C19: without nltk the ranker still has a non-empty stop-word set, and the
\* stop words "the", "and" and "of" add nothing to the score of a candidate.
C19_StopWordsWithoutNltk ==
    (~nltk /\ ~IsNone(ranked)) =>
        /\ StopWords(nltk) # {}
        /\ \A i \in 1..Len(candidates) :
               CandScores(nltk, candidates)[i].score = ClaimScoreWithoutStopWords(i)

-----------------------------------------------------------------------------
(* Claims about the command-line run *)

\* C20: a run in which nltk could not be imported, or its data cannot be loaded,
\* is never ended by the nltk check or by summarization, and once it is past
\* summarization it has a summary mapping.
C20_ToolingNeverFails ==
    (~nltk \/ ~nltkData) =>
        /\ ~IsNone(raisedAt) => raisedAt[1] \notin {"check", "summarize"}
        /\ mainPc \in {"render", "write"} => ~IsNone(narrative)

-----------------------------------------------------------------------------
(* The commit fetcher *)

\* Longest sequence of records the commit source yields.
MaxSource == 3

\* The CommitInfo built from a record of the source: msg = commit_obj.message.strip().
DecodedCommit(rec) == [sha |-> rec.sha, message |-> Strip(rec.message)]

\* The loop of fetch_commits from record i on, with every record counted, the
\* skipped ones too.
RECURSIVE FetchFromCountingSkipped(_, _, _, _, _)
FetchFromCountingSkipped(records, i, count, result, max_commits) ==
    IF i > Len(records) \/ count >= max_commits
    THEN result
    ELSE IF records[i].decodes
         THEN FetchFromCountingSkipped(records, i + 1, count + 1,
                                       Append(result, DecodedCommit(records[i])), max_commits)
         ELSE FetchFromCountingSkipped(records, i + 1, count + 1, result, max_commits)

\* for c in commits: if count >= max_commits: break; try: ... result.append(...);
\* count += 1; except Exception: continue
RECURSIVE FetchFrom(_, _, _, _, _)
FetchFrom(records, i, count, result, max_commits) ==
    IF i > Len(records) \/ count >= max_commits
    THEN result
    ELSE IF records[i].decodes
         THEN FetchFrom(records, i + 1, count + 1,
                        Append(result, DecodedCommit(records[i])), max_commits)
         ELSE FetchFrom(records, i + 1, count, result, max_commits)

\* fetch_commits(owner, repo_name, max_commits): src is None when get_repo or
\* get_commits raises, and then the call raises; otherwise it returns the list.
fetchCommits(src, max_commits) ==
    IF IsNone(src)
    THEN [raised |-> TRUE, result |-> << >>]
    ELSE [raised |-> FALSE, result |-> FetchFrom(src[1], 1, 0, << >>, max_commits)]

-----------------------------------------------------------------------------
(* Specification of the fetcher: one source, fetched once *)

\* Messages as the source holds them: plain, padded with whitespace, blank.
SourceMessages == { <<"a">>, <<" ","b","\n">>, <<" ">> }

\* The records of the source, newest first; the sha is the record's position, and
\* decodes tells whether reading the record's fields raises.
SourceRecords ==
    UNION { { [i \in 1..n |-> [sha |-> i, decodes |-> ds[i], message |-> ms[i]]] :
              ds \in [1..n -> BOOLEAN], ms \in [1..n -> SourceMessages] } :
            n \in 0..MaxSource }

InitFetch ==
    /\ source \in {None} \cup { Some(rs) : rs \in SourceRecords }
    /\ maxCommits \in 0..MaxSource
    /\ fetched = None
    /\ IdleParse
    /\ IdleGroup
    /\ IdleRank
    /\ IdleLater
    /\ IdleCalls
    /\ IdleRender
    /\ IdleQuery
    /\ IdleStandalone

varsEarlier == <<varsParse, varsGroup, varsRank, varsLater>>

\* A call of GitHubFetcher.fetch_commits.
Fetch ==
    /\ IsNone(fetched)
    /\ fetched' = Some(fetchCommits(source, maxCommits))
    /\ UNCHANGED <<source, maxCommits, varsEarlier, varsCalls, varsRender, varsQuery,
                   varsStandalone>>

NextFetch == Fetch

SpecFetch == InitFetch /\ [][NextFetch]_vars

-----------------------------------------------------------------------------
(* Claims about the fetcher *)

\* The records of the source that can be decoded, in the source's order.
DecodableRecords(records) == SelectSeq(records, LAMBDA rec : rec.decodes)

\* C21: fetch_commits raises when the repository cannot be opened; otherwise it
\* returns the first max_commits decodable records of the source, in the source's
\* order, never more than max_commits, and the empty list when max_commits is 0.
C21_FirstDecodableRecords ==
    ~IsNone(fetched) =>
        IF IsNone(source)
        THEN fetched[1].raised
        ELSE LET decodable == DecodableRecords(source[1])
                 expected == Take(decodable, maxCommits)
                 result == fetched[1].result
             IN  /\ ~fetched[1].raised
                 /\ Len(result) <= maxCommits
                 /\ Len(result) = Len(expected)
                 /\ \A i \in 1..Len(result) :
                        /\ result[i].sha = expected[i].sha
                        /\ result[i].message = Strip(expected[i].message)
                 /\ maxCommits = 0 => result = << >>

\* A fetch that skipped an undecodable record and still returned max_commits
\* records, the last of them from behind the skipped one.
C21_Witness ==
    /\ ~IsNone(fetched)
    /\ ~IsNone(source)
    /\ maxCommits = 2
    /\ Len(source[1]) = 3
    /\ ~source[1][2].decodes
    /\ Len(fetched[1].result) = 2
    /\ fetched[1].result[2].sha = 3

-----------------------------------------------------------------------------
(* Claims about failures of the command-line run *)

\* The steps of main() whose exceptions the claims speak of, and those of them
\* that come before the file is opened.
ClaimSteps == {"meta", "commits", "summarize", "render", "write"}
ClaimStepsBeforeWrite == ClaimSteps \ {"write"}

\* C22: a run ended by an exception of the metadata fetch, the commit fetch,
\* summarization, rendering or the file write has a non-zero exit status, and
\* when the exception came before the write step the output file was not written.
C22_FailureExitsNonZero ==
    (~IsNone(raisedAt) /\ raisedAt[1] \in ClaimSteps) =>
        /\ mainPc = "done"
        /\ ~IsNone(exitCode)
        /\ exitCode[1] # 0
        /\ raisedAt[1] \in ClaimStepsBeforeWrite => ~written

\* A run that got as far as rendering, where an exception ended it.
C22_Witness ==
    /\ raisedAt = Some("render")
    /\ ~IsNone(narrative)
    /\ exitCode = Some(1)
    /\ ~written

\* Whether the commit fetch of the run returned, and returned the empty list.
ClaimFetchedNothing ==
    /\ "commits" \in invoked
    /\ raisedAt # Some("commits")
    /\ commits = << >>

\* C28: after a commit fetch that returned the empty list, summarization,
\* rendering and the write are never invoked, the file is not written, and the
\* run, unless interrupted from the keyboard, ends with status 0; and in every run
\* the write step is invoked only after fetcher, metadata fetch, commit fetch,
\* summarization and rendering have all been invoked and have returned.
C28_EmptyEndsNormally ==
    /\ ClaimFetchedNothing =>
           /\ invoked \cap {"summarize", "render", "write"} = {}
           /\ ~written
           /\ IsNone(narrative)
           /\ mainPc \in {"empty", "done"}
           /\ (mainPc = "done" /\ raisedAt # Some("interrupt")) =>
                  (exitCode = Some(0) /\ IsNone(raisedAt))
    /\ (written \/ "write" \in invoked) =>
           /\ {"meta", "commits", "summarize", "render"} \subseteq invoked
           /\ ~IsNone(narrative)
           /\ commits # << >>
           /\ raisedAt \in {None, Some("write")}

\* A run whose commit fetch returned the empty list and which has ended.
C28_Witness ==
    /\ ClaimFetchedNothing
    /\ mainPc = "done"
    /\ exitCode = Some(0)

-----------------------------------------------------------------------------
(* Specification of repeated parsing: calls of CommitParser.parse in any order *)

\* Longest sequence of calls.
MaxCalls == 3

\* The messages parsed: conventional with scope and body, conventional in
\* capitals, fallback with two keywords, fallback without keyword, empty.
CallMessages ==
    { <<"f","i","x","(","a",")",":"," ","b","\n","c">>,
      <<"F","E","A","T",":"," ","a">>,
      <<"F","i","x"," ","f","e","a","t">>,
      <<"x">>,
      << >> }

InitCalls ==
    /\ calls = << >>
    /\ IdleParse
    /\ IdleGroup
    /\ IdleRank
    /\ IdleLater
    /\ IdleFetch
    /\ IdleRender
    /\ IdleQuery
    /\ IdleStandalone

\* One more call of CommitParser.parse, on any message.
ParseCall ==
    /\ Len(calls) < MaxCalls
    /\ \E m \in CallMessages :
           calls' = Append(calls, [message |-> m, result |-> parse(m)])
    /\ UNCHANGED <<varsEarlier, varsFetch, varsRender, varsQuery, varsStandalone>>

NextCalls == ParseCall

SpecCalls == InitCalls /\ [][NextCalls]_vars

-----------------------------------------------------------------------------
(* Claims about repeated parsing *)

-----------------------------------------------------------------------------
(* Claims about the categories without a themed template *)

\* C24: for a category other than feat, fix, docs and refactor that has
\* descriptions, the narrative text is one one-line sentence, with no header,
\* themed, fallback or closing paragraph, and the number it reports is the number
\* of descriptions.
C24_OneLineCount ==
    (~IsNone(detailed) /\ commitType \notin ThemedTypes /\ descriptions # << >>) =>
        /\ Len(detailed[1]) = 1
        /\ detailed[1][1].kind = "line"
        /\ detailed[1][1].count = Len(descriptions)

\* The catch-all category style summarized over two descriptions.
C24_Witness ==
    /\ ~IsNone(detailed)
    /\ commitType = kStyle
    /\ Len(descriptions) = 2
    /\ Len(detailed[1]) = 1
    /\ detailed[1][1].count = 2

-----------------------------------------------------------------------------
(* Specification of the two drivers: one commit list, summarized by both *)

\* The messages of the commits: with a description, with description and body,
\* unconventional, with a blank first line and a body, and empty.
DriverMessages == {nFeat, nFixBody, nPlain, nBlankFirst, << >>}

DriverCommitLists ==
    UNION { { [i \in 1..n |-> [sha |-> i, message |-> ms[i]]] :
                ms \in [1..n -> DriverMessages] } : n \in 0..MaxCommits }

InitDrivers ==
    /\ IdleRest
    /\ commits \in DriverCommitLists
    /\ groups = None
    /\ sgroups = None
    /\ nltk \in BOOLEAN
    /\ candidates = << >>
    /\ ranked = None
    /\ topN = DefaultTopN
    /\ bullets = None
    /\ narrative = None
    /\ IdleParse
    /\ IdleRerank
    /\ IdleDetail
    /\ IdleMain

NextDrivers == SummarizeBullets \/ SummarizeNarrative

SpecDrivers == InitDrivers /\ [][NextDrivers]_vars

-----------------------------------------------------------------------------
(* Claims about the keys of the two drivers *)

\* The categories with a commit of the list whose description is not empty.
CategoriesWithDescription ==
    { parse(commits[i].message).ctype :
        i \in { j \in 1..Len(commits) : parse(commits[j].message).desc # << >> } }

\* C25: the narrative driver's mapping has a key for exactly the categories with
\* a commit whose description is not empty, and no empty text; the bullet
\* driver's mapping has a key for exactly the categories with a commit.
C25_DriverKeys ==
    /\ ~IsNone(narrative) =>
           /\ DictKeys(narrative[1]) = CategoriesWithDescription
           /\ \A i \in 1..Len(narrative[1]) : narrative[1][i].text # << >>
    /\ ~IsNone(bullets) =>
           DictKeys(bullets[1]) = CategoriesOfCommits

\* A feature commit and a commit with an empty message, summarized by both
\* drivers: the narrative mapping has the key feat only, the bullet mapping has
\* feat and chore, chore with an empty list.
C25_Witness ==
    /\ Len(commits) = 2
    /\ commits[1].message = nFeat
    /\ commits[2].message = << >>
    /\ ~IsNone(narrative)
    /\ ~IsNone(bullets)
    /\ DictKeys(narrative[1]) = {kFeat}
    /\ DictKeys(bullets[1]) = {kFeat, kChore}
    /\ bullets[1][DictIndex(bullets[1], kChore)].items = << >>

-----------------------------------------------------------------------------
(* The renderer's recent-activity section *)

\* commits[:10]
RecentLimit == 10

\* Longest commit list handed to the renderer.
MaxRecent == 11

\* The loop of _format_recent_activity from commit i on: short_msg =
\* c.message.splitlines()[0] raises IndexError for a message without lines, and
\* the exception leaves the loop.
RECURSIVE FormatFrom(_, _, _)
FormatFrom(cs, i, lines) ==
    IF i > Len(cs)
    THEN [raised |-> FALSE, lines |-> lines]
    ELSE LET msgLines == SplitLines(cs[i].message)
         IN  IF msgLines = << >>
             THEN [raised |-> TRUE, lines |-> << >>]
             ELSE FormatFrom(cs, i + 1,
                             Append(lines, [sha |-> cs[i].sha, short_msg |-> msgLines[1]]))

\* ReadmeGenerator._format_recent_activity(commits)
formatRecentActivity(cs) == FormatFrom(Take(cs, RecentLimit), 1, << >>)

\* ReadmeGenerator.generate_markdown(meta, summaries, commits): of the sections
\* only the recent activity reads the commits' messages; its exception is not
\* caught.
generateMarkdown(cs) ==
    LET recent == formatRecentActivity(cs)
    IN  [raised |-> recent.raised, recent |-> recent.lines]

-----------------------------------------------------------------------------
(* Specification of the renderer: one commit list, rendered *)

\* Messages as the fetcher stores them, stripped: two lines, one line, empty.
rTwoLines == <<"a","\n","b">>
rOneLine == <<"c">>
RenderMessages == {rTwoLines, rOneLine, << >>}

\* Commit lists of every length up to MaxRecent; at most one commit, at any
\* position, has a message other than rTwoLines.
RenderCommitLists ==
    UNION { { [i \in 1..n |-> [sha |-> i,
                               message |-> IF i = at THEN m ELSE rTwoLines]] :
                at \in 1..n, m \in RenderMessages } : n \in 0..MaxRecent }
    \cup {<< >>}

InitRender ==
    /\ commits \in RenderCommitLists
    /\ groups = None
    /\ sgroups = None
    /\ activity = None
    /\ markdown = None
    /\ IdleParse
    /\ IdleRank
    /\ IdleLater
    /\ IdleFetch
    /\ IdleCalls
    /\ IdleQuery
    /\ IdleStandalone

\* A call of ReadmeGenerator._format_recent_activity.
FormatRecentActivity ==
    /\ IsNone(activity)
    /\ activity' = Some(formatRecentActivity(commits))
    /\ UNCHANGED <<markdown, varsEarlier, varsFetch, varsCalls, varsQuery, varsStandalone>>

\* A call of ReadmeGenerator.generate_markdown.
GenerateMarkdown ==
    /\ IsNone(markdown)
    /\ markdown' = Some(generateMarkdown(commits))
    /\ UNCHANGED <<activity, varsEarlier, varsFetch, varsCalls, varsQuery, varsStandalone>>

NextRender == FormatRecentActivity \/ GenerateMarkdown

SpecRender == InitRender /\ [][NextRender]_vars

-----------------------------------------------------------------------------
(* Claims about the renderer *)

\* The first line of a message, the empty text for a message without lines.
ClaimShortMsg(msg) == IF SplitLines(msg) = << >> THEN << >> ELSE SplitLines(msg)[1]

\* The section the claim describes: the first ten commits in input order, each
\* with the first line of its message.
ClaimRecent ==
    LET shown == Take(commits, RecentLimit)
    IN  [i \in 1..Len(shown) |->
            [sha |-> shown[i].sha, short_msg |-> ClaimShortMsg(shown[i].message)]]

\* C26: _format_recent_activity and generate_markdown never raise, and the
\* section lists the first ten commits in input order, each with the first line
\* of its message.
C26_RenderNeverRaises ==
    /\ ~IsNone(activity) =>
           /\ ~activity[1].raised
           /\ activity[1].lines = ClaimRecent
    /\ ~IsNone(markdown) =>
           /\ ~markdown[1].raised
           /\ markdown[1].recent = ClaimRecent

-----------------------------------------------------------------------------
(* Claims about the variant the ranker keeps *)

\* The first candidate of the input list that equals cand when case is ignored.
ClaimFirstVariant(cand) ==
    candidates[CHOOSE i \in 1..Len(candidates) :
                   /\ Lower(candidates[i]) = Lower(cand)
                   /\ \A j \in 1..(i - 1) : Lower(candidates[j]) # Lower(cand)]

\* C27: every candidate of the ranked list is the first of the input list among
\* those equal to it when case is ignored, and each such class of the input has
\* exactly one candidate in the ranked list.
C27_FirstVariantKept ==
    ~IsNone(ranked) =>
        /\ \A i \in 1..Len(ranked[1]) : ranked[1][i] = ClaimFirstVariant(ranked[1][i])
        /\ \A i \in 1..Len(candidates) :
               Cardinality({j \in 1..Len(ranked[1]) :
                               Lower(ranked[1][j]) = Lower(candidates[i])}) = 1

\* Two case variants with another candidate between them: the earlier variant,
\* the one in capitals, is in the ranked list and the later one is not.
C27_Witness ==
    /\ candidates = <<cAddLoginUpper, cAddSignup, cAddLogin>>
    /\ ~IsNone(ranked)
    /\ \E i \in 1..Len(ranked[1]) : ranked[1][i] = cAddLoginUpper
    /\ \A i \in 1..Len(ranked[1]) : ranked[1][i] # cAddLogin

-----------------------------------------------------------------------------
(* The queries of CommitCategorizer *)

\* ord(c) for the characters a commit type can have: letters and U+017F.
CodePoint(c) ==
    IF \E i \in 1..26 : LowerChars[i] = c
    THEN 96 + (CHOOSE i \in 1..26 : LowerChars[i] = c)
    ELSE IF \E i \in 1..26 : UpperChars[i] = c
         THEN 64 + (CHOOSE i \in 1..26 : UpperChars[i] = c)
         ELSE IF c = LongS THEN 383 ELSE 0

\* a < b for str: the first differing character decides, a proper prefix is less.
StrLess(a, b) ==
    \E k \in 1..(Len(a) + 1) :
        /\ k <= Len(b)
        /\ \A j \in 1..(k - 1) : a[j] = b[j]
        /\ k > Len(a) \/ CodePoint(a[k]) < CodePoint(b[k])

\* sorted(list(types)) for a set of strings
RECURSIVE SortedStrings(_)
SortedStrings(types) ==
    IF types = {} THEN << >>
    ELSE LET least == CHOOSE t \in types : \A u \in types \ {t} : StrLess(t, u)
         IN  <<least>> \o SortedStrings(types \ {least})

\* The commit types in the order of their first commit, not sorted.
getCommitTypesUnsorted(cs) ==
    LET d == categorize(cs) IN [i \in 1..Len(d) |-> d[i].key]

\* CommitCategorizer.get_commit_types(commits)
getCommitTypes(cs) ==
    SortedStrings({parse(cs[i].message).ctype : i \in 1..Len(cs)})

\* CommitCategorizer.get_commits_by_type(commits, commit_type)
getCommitsByType(cs, commit_type) ==
    SelectSeq(cs, LAMBDA c : parse(c.message).ctype = commit_type)

-----------------------------------------------------------------------------
(* Specification of the queries: one commit list, queried three ways *)

\* The commit_type arguments: a type with conventional and fallback commits, the
\* fallback's default, and a type no commit of the lists has.
QueryTypes == {kFeat, kChore, kDocs}

InitQuery ==
    /\ commits \in CommitLists
    /\ groups = None
    /\ sgroups = None
    /\ commitTypes = None
    /\ byType = None
    /\ IdleParse
    /\ IdleRank
    /\ IdleLater
    /\ IdleFetch
    /\ IdleCalls
    /\ IdleRender
    /\ IdleStandalone

\* A call of CommitCategorizer.get_commit_types on the commit list.
GetCommitTypes ==
    /\ IsNone(commitTypes)
    /\ commitTypes' = Some(getCommitTypes(commits))
    /\ UNCHANGED <<byType, varsEarlier, varsFetch, varsCalls, varsRender, varsStandalone>>

\* A call of CommitCategorizer.get_commits_by_type on the commit list.
GetCommitsByType ==
    /\ IsNone(byType)
    /\ \E t \in QueryTypes :
           byType' = Some([commit_type |-> t, result |-> getCommitsByType(commits, t)])
    /\ UNCHANGED <<commitTypes, varsEarlier, varsFetch, varsCalls, varsRender, varsStandalone>>

NextQuery == Categorize \/ GetCommitTypes \/ GetCommitsByType

SpecQuery == InitQuery /\ [][NextQuery]_vars

-----------------------------------------------------------------------------
(* Claims about the queries *)

\* Whether the three results agree: the types are the keys of the grouping, each
\* once and in ascending order, and the commits of a type are the grouping's
\* list under that key, or no commits when the type is no key.
ClaimQueriesAgree ==
    /\ (~IsNone(groups) /\ ~IsNone(commitTypes)) =>
           /\ Range(commitTypes[1]) = DictKeys(groups[1])
           /\ \A i \in 1..(Len(commitTypes[1]) - 1) :
                  StrLess(commitTypes[1][i], commitTypes[1][i + 1])
    /\ (~IsNone(groups) /\ ~IsNone(byType)) =>
           byType[1].result =
               IF byType[1].commit_type \in DictKeys(groups[1])
               THEN groups[1][DictIndex(groups[1], byType[1].commit_type)].items
               ELSE << >>

\* C29: the results of categorize, get_commit_types and get_commits_by_type
\* agree on every commit list, and no call changes the list.
C29_QueriesAgree == []ClaimQueriesAgree /\ [][commits' = commits]_vars

\* A list whose first commit is a fix and whose second is a feature, queried
\* three ways: the types are sorted, feat before fix.
C29_Witness ==
    /\ Len(commits) = 3
    /\ ~IsNone(groups)
    /\ ~IsNone(commitTypes)
    /\ ~IsNone(byType)
    /\ groups[1][1].key = kFix
    /\ commitTypes[1] = <<kFeat, kFix>>
    /\ byType[1].commit_type = kFeat
    /\ Len(byType[1].result) = 2

-----------------------------------------------------------------------------
(* categorize_commits of the standalone summarizer module *)

\* Longest list of messages given to categorize_commits.
MaxMessages == 3

\* The prefixes tested with lowered.startswith, in the order of the if/elif
\* chain, each with its bucket.
BucketPrefixes ==
    << [prefix |-> <<"f","e","a","t">>, bucket |-> "features"],
       [prefix |-> <<"f","i","x">>, bucket |-> "fixes"],
       [prefix |-> <<"d","o","c","s">>, bucket |-> "docs"],
       [prefix |-> <<"r","e","f","a","c","t","o","r">>, bucket |-> "refactor"],
       [prefix |-> <<"t","e","s","t">>, bucket |-> "tests"] >>

\* The keyword rules of the fallback, in the order of the if/elif chain, each
\* with its bucket: re.search(r"\b(w1|w2|...)\b", lowered).
BucketKeywords ==
    << [bucket |-> "features",
        words |-> {<<"a","d","d">>, <<"i","m","p","l","e","m","e","n","t">>, <<"i","n","t","r","o","d","u","c","e">>, <<"s","u","p","p","o","r","t">>, <<"f","e","a","t","u","r","e">>}],
       [bucket |-> "fixes",
        words |-> {<<"f","i","x">>, <<"b","u","g">>, <<"i","s","s","u","e">>, <<"e","r","r","o","r">>, <<"c","r","a","s","h">>, <<"r","e","s","o","l","v","e">>}],
       [bucket |-> "docs",
        words |-> {<<"d","o","c">>, <<"r","e","a","d","m","e">>, <<"g","u","i","d","e">>, <<"t","u","t","o","r","i","a","l">>}],
       [bucket |-> "refactor",
        words |-> {<<"r","e","f","a","c","t","o","r">>, <<"r","e","s","t","r","u","c","t","u","r","e">>, <<"c","l","e","a","n","u","p">>, <<"f","o","r","m","a","t">>}],
       [bucket |-> "tests",
        words |-> {<<"t","e","s","t">>, <<"c","o","v","e","r","a","g","e">>, <<"c","i">>, <<"p","i","p","e","l","i","n","e">>}] >>

\* Whether w stands in s at position i between two word boundaries (w consists
\* of word characters).
WordAt(s, i, w) ==
    /\ i + Len(w) - 1 <= Len(s)
    /\ SubSeq(s, i, i + Len(w) - 1) = w
    /\ i = 1 \/ ~IsWordChar(s[i - 1])
    /\ i + Len(w) - 1 = Len(s) \/ ~IsWordChar(s[i + Len(w)])

\* re.search(r"\b(w1|w2|...)\b", s) is not None
SearchWords(s, words) == \E w \in words : \E i \in 1..Len(s) : WordAt(s, i, w)

\* The bucket of the fallback keyword rules for lowered.
KeywordBucket(lowered) ==
    LET hit == {k \in 1..Len(BucketKeywords) : SearchWords(lowered, BucketKeywords[k].words)}
    IN  IF hit = {} THEN "other"
        ELSE BucketKeywords[CHOOSE k \in hit : \A k2 \in hit : k <= k2].bucket

\* The bucket of a message when the keyword rules are tried before the prefixes.
BucketOfKeywordsFirst(msg) ==
    LET lowered == Strip(Lower(msg))
        hit == {k \in 1..Len(BucketPrefixes) : StartsWith(lowered, BucketPrefixes[k].prefix)}
    IN  IF KeywordBucket(lowered) # "other" THEN KeywordBucket(lowered)
        ELSE IF hit # {}
             THEN BucketPrefixes[CHOOSE k \in hit : \A k2 \in hit : k <= k2].bucket
             ELSE "other"

\* The body of the loop: lowered = msg.lower().strip(), the prefix chain, then
\* the keyword chain.
BucketOf(msg) ==
    LET lowered == Strip(Lower(msg))
        hit == {k \in 1..Len(BucketPrefixes) : StartsWith(lowered, BucketPrefixes[k].prefix)}
    IN  IF hit # {}
        THEN BucketPrefixes[CHOOSE k \in hit : \A k2 \in hit : k <= k2].bucket
        ELSE KeywordBucket(lowered)

\* The loop of categorize_commits from message i on: categories[b].append(msg).
RECURSIVE CategorizeCommitsFrom(_, _, _)
CategorizeCommitsFrom(msgs, i, d) ==
    IF i > Len(msgs) THEN d
    ELSE CategorizeCommitsFrom(msgs, i + 1, GroupAppend(d, BucketOf(msgs[i]), msgs[i]))

\* categorize_commits(commits)
categorizeCommits(msgs) == CategorizeCommitsFrom(msgs, 1, << >>)

-----------------------------------------------------------------------------
(* Specification of the standalone categorizer: one list of messages *)

\* A feat prefix with keywords of fixes
sFeatFix == <<"f","e","a","t",":"," ","f","i","x"," ","b","u","g">>
\* A fix prefix behind whitespace and in capitals, with a keyword of features
sFixAdd == <<" ","F","i","x"," ","a","d","d","\n">>
\* Keywords of features and of fixes
sAddFix == <<"a","d","d"," ","f","i","x">>
\* Keywords of fixes and of docs
sBugReadme == <<"b","u","g"," ","i","n"," ","r","e","a","d","m","e">>
\* Keywords of docs and of refactor
sReadmeFormat == <<"r","e","a","d","m","e"," ","f","o","r","m","a","t">>
\* Keywords of refactor and of tests
sFormatCi == <<"f","o","r","m","a","t"," ","c","i">>
\* A keyword of tests
sCi == <<"c","i">>
\* A keyword inside a longer word
sAddress == <<"a","d","d","r","e","s","s">>
\* A test prefix that is no whole word
sTesting == <<"t","e","s","t","i","n","g">>
StandaloneMessages ==
    {sFeatFix, sFixAdd, sAddFix, sBugReadme, sReadmeFormat, sFormatCi, sCi, sAddress, sTesting, <<"x">>}

MessageLists == UNION { [1..n -> StandaloneMessages] : n \in 0..MaxMessages }

InitStandalone ==
    /\ messages \in MessageLists
    /\ buckets = None
    /\ IdleParse
    /\ IdleGroup
    /\ IdleRank
    /\ IdleLater
    /\ IdleFetch
    /\ IdleCalls
    /\ IdleRender
    /\ IdleQuery

\* A call of categorize_commits on the list of messages.
CategorizeCommits ==
    /\ IsNone(buckets)
    /\ buckets' = Some(categorizeCommits(messages))
    /\ UNCHANGED <<messages, varsEarlier, varsFetch, varsCalls, varsRender, varsQuery>>

NextStandalone == CategorizeCommits

SpecStandalone == InitStandalone /\ [][NextStandalone]_vars

-----------------------------------------------------------------------------
(* Claims about the standalone categorizer *)

ClaimBuckets == {"features", "fixes", "docs", "refactor", "tests", "other"}

\* The buckets that hold the message.
ClaimBucketsOf(msg) ==
    {buckets[1][i].key : i \in {j \in 1..Len(buckets[1]) : msg \in Range(buckets[1][j].items)}}

\* The bucket the claim gives a message with one of the five prefixes.
ClaimPrefixBucket(lowered) ==
    IF StartsWith(lowered, kFeat) THEN "features"
    ELSE IF StartsWith(lowered, kFix) THEN "fixes"
    ELSE IF StartsWith(lowered, kDocs) THEN "docs"
    ELSE IF StartsWith(lowered, kRefactor) THEN "refactor"
    ELSE IF StartsWith(lowered, kTest) THEN "tests"
    ELSE "other"

\* Whether one of the words stands in the text as a whole word.
ClaimHasWord(lowered, words) ==
    \E w \in words : \E i \in 1..Len(lowered) :
        /\ i + Len(w) - 1 <= Len(lowered)
        /\ SubSeq(lowered, i, i + Len(w) - 1) = w
        /\ i > 1 => ~IsWordChar(lowered[i - 1])
        /\ i + Len(w) - 1 < Len(lowered) => ~IsWordChar(lowered[i + Len(w)])

\* The bucket the claim gives a message without prefix: the first keyword rule
\* among features, fixes, docs, refactor, tests that matches, otherwise other.
ClaimKeywordBucket(lowered) ==
    IF ClaimHasWord(lowered, BucketKeywords[1].words) THEN "features"
    ELSE IF ClaimHasWord(lowered, BucketKeywords[2].words) THEN "fixes"
    ELSE IF ClaimHasWord(lowered, BucketKeywords[3].words) THEN "docs"
    ELSE IF ClaimHasWord(lowered, BucketKeywords[4].words) THEN "refactor"
    ELSE IF ClaimHasWord(lowered, BucketKeywords[5].words) THEN "tests"
    ELSE "other"

\* C30: every message is in exactly one of the six buckets, a bucket holds its
\* messages in input order, a message with one of the five prefixes is in that
\* prefix's bucket whatever keywords it has, and a message without prefix is in
\* the bucket of the first keyword rule that matches, or in other.
C30_OneBucketPrefixFirst ==
    ~IsNone(buckets) =>
        /\ DictKeys(buckets[1]) \subseteq ClaimBuckets
        /\ \A i \in 1..Len(messages) : Cardinality(ClaimBucketsOf(messages[i])) = 1
        /\ \A j \in 1..Len(buckets[1]) :
               buckets[1][j].items =
                   SelectSeq(messages, LAMBDA m : m \in Range(buckets[1][j].items))
        /\ \A i \in 1..Len(messages) :
               LET lowered == Strip(Lower(messages[i]))
               IN  ClaimBucketsOf(messages[i]) =
                       IF ClaimPrefixBucket(lowered) # "other"
                       THEN {ClaimPrefixBucket(lowered)}
                       ELSE {ClaimKeywordBucket(lowered)}

\* A message with the prefix feat and keywords of fixes, one without prefix and
\* with keywords of fixes and docs, and the first again: features holds the first
\* and the third, fixes holds the second.
C30_Witness ==
    /\ messages = <<sFeatFix, sBugReadme, sFeatFix>>
    /\ ~IsNone(buckets)
    /\ DictKeys(buckets[1]) = {"features", "fixes"}
    /\ buckets[1][DictIndex(buckets[1], "features")].items = <<sFeatFix, sFeatFix>>
    /\ buckets[1][DictIndex(buckets[1], "fixes")].items = <<sBugReadme>>

=============================================================================
